---- MODULE Spec2Model ----
(***************************************************************************)
(* Model of the Hebrew flashcard trainer (src/app.js, first variant, lines *)
(* 1-695): the IndexedDB "lists" and "progress" object stores, the         *)
(* requests in flight against them, the session state machine             *)
(* (startSession / nextWord / checkAnswer) and the progress recorder.      *)
(*                                                                         *)
(* Strings are sequences of UTF-16 code units, indices of JS arrays are    *)
(* kept 0-based in currentWordIndex as in the code.                        *)
(***************************************************************************)
EXTENDS Integers, Sequences, FiniteSets, TLC

VARIABLES
  lists,             \* object store "lists": id -> list (domain = stored ids)
  progress,          \* object store "progress": <<>> or <<record for today>>
  listQ,             \* requests in flight on "lists", in creation order
  progQ,             \* requests in flight on "progress", in creation order
  dbListSelect,      \* ids offered by the list dropdown
  currentList,       \* <<>> (null) or <<the loaded list object>>
  sessionWords,      \* the session's word copies
  currentWordIndex,  \* 0-based cursor, -1 before the first nextWord
  globalSessionMode,
  progressRecorded,
  sessionRecordings, \* history: getProgressRecord calls issued by this session
  answeredThisWord,  \* history: checkAnswer has run since the cursor last moved
  clicks,            \* history: button clicks handled so far
  last               \* history: what the last step did

vars == <<lists, progress, listQ, progQ, dbListSelect, currentList,
          sessionWords, currentWordIndex, globalSessionMode,
          progressRecorded, sessionRecordings, answeredThisWord, clicks, last>>

(***************************************************************************)
(* Bounds of the model.                                                    *)
(***************************************************************************)
MaxClicks == 5   \* button clicks of one run

(***************************************************************************)
(* Program constants.                                                      *)
(***************************************************************************)
LeastKnownLimit == 20

(***************************************************************************)
(* Strings and the utility functions.                                      *)
(***************************************************************************)
Whitespace == {9, 10, 13, 32}

RECURSIVE TrimLeft(_)
TrimLeft(s) ==
  IF s # <<>> /\ Head(s) \in Whitespace THEN TrimLeft(Tail(s)) ELSE s

RECURSIVE TrimRight(_)
TrimRight(s) ==
  IF s # <<>> /\ s[Len(s)] \in Whitespace
  THEN TrimRight(SubSeq(s, 1, Len(s) - 1))
  ELSE s

Trim(s) == TrimRight(TrimLeft(s))

ToLowerCase(s) ==
  [i \in 1..Len(s) |-> IF s[i] >= 65 /\ s[i] <= 90 THEN s[i] + 32 ELSE s[i]]

containsNikkud(text) ==
  \E i \in 1..Len(text) : text[i] >= 1425 /\ text[i] <= 1479

getCanonicalHebrew(variants) ==
  IF \E i \in 1..Len(variants) : containsNikkud(variants[i])
  THEN variants[CHOOSE i \in 1..Len(variants) :
                  /\ containsNikkud(variants[i])
                  /\ \A j \in 1..(i - 1) : ~containsNikkud(variants[j])]
  ELSE variants[1]

(***************************************************************************)
(* Input domains: the vocabulary of the stored lists, what the user types, *)
(* the quiz direction chosen in select#modeSelect.                         *)
(***************************************************************************)
UserAnswers ==
  { <<>>, <<67>>, <<99>>, <<100>>, <<1513>>, <<1513, 1464>>, <<1499, 32>> }

Modes == {"engToHeb", "hebToEng"}

\* A WordEntry as parseDCPText creates it.
NewWord(k) ==
  [english |-> k.english, hebrew |-> k.hebrew, status |-> "default",
   correctStreak |-> 0, correctCount |-> 0, incorrectCount |-> 0]

StoredList(i, keys) ==
  [id |-> i, name |-> i, words |-> [k \in 1..Len(keys) |-> NewWord(keys[k])]]

Cat == [english |-> <<67>>,  hebrew |-> << <<1513>>, <<1513, 1464>> >>]
Dog == [english |-> <<100>>, hebrew |-> << <<1499>> >>]

\* The stores the run starts from, as uploads and deletions before it can have
\* left them: no list, an empty list, one word, two words, the same line
\* twice in one file.
InitialStores ==
  { [i \in {} |-> StoredList(i, <<>>)],
    [i \in {1} |-> StoredList(i, <<>>)],
    [i \in {1} |-> StoredList(i, <<Cat>>)],
    [i \in {1} |-> StoredList(i, <<Cat, Dog>>)],
    [i \in {1} |-> StoredList(i, <<Dog, Dog>>)] }

(***************************************************************************)
(* Helpers on sequences.                                                   *)
(***************************************************************************)
\* The exchange writing array[j] to array[i] only.
SwapOverwrites(array, i, j) == [array EXCEPT ![i] = array[j]]

\* [array[i], array[j]] = [array[j], array[i]]
Swap(array, i, j) == [array EXCEPT ![i] = array[j], ![j] = array[i]]

\* Fisher-Yates, i running from the last index down to the second one (1-based
\* here), j drawn from the indices up to i: the set of arrays it can return.
RECURSIVE ShuffleFrom(_, _)
ShuffleFrom(array, i) ==
  IF i <= 1 THEN {array}
  ELSE UNION { ShuffleFrom(Swap(array, i, j), i - 1) : j \in 1..i }

shuffle(array) == ShuffleFrom(array, Len(array))

RECURSIVE Flatten(_)
Flatten(ss) == IF ss = <<>> THEN <<>> ELSE Head(ss) \o Flatten(Tail(ss))

\* The ids of the store in key order, as getAll() returns the lists.
RECURSIVE KeysAscending(_)
KeysAscending(ids) ==
  IF ids = {} THEN <<>>
  ELSE LET m == CHOOSE x \in ids : \A y \in ids : x <= y
       IN <<m>> \o KeysAscending(ids \ {m})

(***************************************************************************)
(* Session functions.                                                      *)
(***************************************************************************)
\* The copy startSession makes of one word.  origin (list id and 1-based
\* position of the WordEntry copied) and answers (the answers given to the
\* word in this session, oldest first) are history fields; parentListId = 0
\* stands for the property the copy does not have.
SessionCopy(word, origin) ==
  [english |-> word.english,
   hebrew |-> word.hebrew,
   status |-> "default",
   correctCount |-> word.correctCount,
   incorrectCount |-> word.incorrectCount,
   correctStreak |-> 0,
   parentListId |-> 0,
   origin |-> origin,
   answers |-> <<>>]

\* The session word lists startSession can install (one per shuffle outcome).
startSession(wordsArray, origins) ==
  shuffle([k \in 1..Len(wordsArray) |-> SessionCopy(wordsArray[k], origins[k])])

\* nextWord stopping at the last word instead of wrapping round.
nextWordStopsAtEnd(words, index) ==
  IF Len(words) = 0 \/ index + 1 >= Len(words) THEN index ELSE index + 1

\* nextWord without the modulo.
nextWordPastEnd(words, index) ==
  IF Len(words) = 0 THEN index ELSE index + 1

\* currentWordIndex after nextWord.
nextWord(words, index) ==
  IF Len(words) = 0 THEN index ELSE (index + 1) % Len(words)

IsCorrect(currentWord, mode, userAnswer) ==
  IF mode = "engToHeb"
  THEN \E i \in 1..Len(currentWord.hebrew) : currentWord.hebrew[i] = userAnswer
  ELSE ToLowerCase(currentWord.english) = ToLowerCase(userAnswer)

CanonicalAnswer(currentWord, mode) ==
  IF mode = "engToHeb" THEN getCanonicalHebrew(currentWord.hebrew)
  ELSE currentWord.english

\* AnswerWord with one slip each: the streak rule applied to fresh words too;
\* a correct answer marking the word known whatever the streak; an incorrect
\* answer leaving the streak as it is.
AnswerWordStreakFromFresh(w, isCorrect) ==
  IF isCorrect
  THEN [w EXCEPT !.correctCount = @ + 1,
                 !.correctStreak = @ + 1,
                 !.status = IF w.correctStreak + 1 >= 2 THEN "known" ELSE @,
                 !.answers = Append(@, TRUE)]
  ELSE [w EXCEPT !.incorrectCount = @ + 1,
                 !.status = "wrong",
                 !.correctStreak = 0,
                 !.answers = Append(@, FALSE)]

AnswerWordKnownAtOnce(w, isCorrect) ==
  IF isCorrect
  THEN [w EXCEPT !.correctCount = @ + 1,
                 !.correctStreak = IF w.status = "wrong" THEN @ + 1 ELSE @,
                 !.status = "known",
                 !.answers = Append(@, TRUE)]
  ELSE [w EXCEPT !.incorrectCount = @ + 1,
                 !.status = "wrong",
                 !.correctStreak = 0,
                 !.answers = Append(@, FALSE)]

AnswerWordKeepsStreak(w, isCorrect) ==
  IF isCorrect
  THEN IF w.status = "wrong"
       THEN [w EXCEPT !.correctCount = @ + 1,
                      !.correctStreak = @ + 1,
                      !.status = IF w.correctStreak + 1 >= 2 THEN "known" ELSE @,
                      !.answers = Append(@, TRUE)]
       ELSE [w EXCEPT !.correctCount = @ + 1,
                      !.status = "known",
                      !.answers = Append(@, TRUE)]
  ELSE [w EXCEPT !.incorrectCount = @ + 1,
                 !.status = "wrong",
                 !.answers = Append(@, FALSE)]

\* checkAnswer not counting an incorrect answer.
AnswerWordMissUncounted(w, isCorrect) ==
  IF isCorrect
  THEN IF w.status = "wrong"
       THEN [w EXCEPT !.correctCount = @ + 1,
                      !.correctStreak = @ + 1,
                      !.status = IF w.correctStreak + 1 >= 2 THEN "known" ELSE @,
                      !.answers = Append(@, TRUE)]
       ELSE [w EXCEPT !.correctCount = @ + 1,
                      !.status = "known",
                      !.answers = Append(@, TRUE)]
  ELSE [w EXCEPT !.status = "wrong",
                 !.correctStreak = 0,
                 !.answers = Append(@, FALSE)]

\* The status/streak/count update of checkAnswer on the current word.
AnswerWord(w, isCorrect) ==
  IF isCorrect
  THEN IF w.status = "wrong"
       THEN [w EXCEPT !.correctCount = @ + 1,
                      !.correctStreak = @ + 1,
                      !.status = IF w.correctStreak + 1 >= 2 THEN "known" ELSE @,
                      !.answers = Append(@, TRUE)]
       ELSE [w EXCEPT !.correctCount = @ + 1,
                      !.status = "known",
                      !.answers = Append(@, TRUE)]
  ELSE [w EXCEPT !.incorrectCount = @ + 1,
                 !.status = "wrong",
                 !.correctStreak = 0,
                 !.answers = Append(@, FALSE)]

\* The loop of checkAnswer over the words of a list: the first word with the
\* english and hebrew of currentWord takes its counts and streak and the
\* neutral status.
Matches(word, currentWord) ==
  word.english = currentWord.english /\ word.hebrew = currentWord.hebrew

CommittedStatus(currentWord) == "default"

CommitWord(words, currentWord) ==
  IF \E k \in 1..Len(words) : Matches(words[k], currentWord)
  THEN LET k == CHOOSE k \in 1..Len(words) :
                  /\ Matches(words[k], currentWord)
                  /\ \A j \in 1..(k - 1) : ~Matches(words[j], currentWord)
       IN [words EXCEPT ![k] = [@ EXCEPT
             !.correctCount = currentWord.correctCount,
             !.incorrectCount = currentWord.incorrectCount,
             !.correctStreak = currentWord.correctStreak,
             !.status = CommittedStatus(currentWord)]]
  ELSE words

AllKnown(words) == \A i \in 1..Len(words) : words[i].status = "known"

\* recordProgress without its flag test.
AlreadyRecordedIgnored(recorded) == FALSE

\* recordProgress returns at once when the session has recorded already.
AlreadyRecorded(recorded) == recorded

\* The guard of checkAnswer: it returns at once on an empty session.
HasCurrentWord == Len(sessionWords) # 0

(***************************************************************************)
(* Weakest-N selection (the leastKnownButton handler).                     *)
(***************************************************************************)
\* metric = total > 0 ? incorrectCount / total : 0, kept as a fraction.
MetricNum(word) == IF word.correctCount + word.incorrectCount > 0
                   THEN word.incorrectCount ELSE 0
MetricDen(word) == IF word.correctCount + word.incorrectCount > 0
                   THEN word.correctCount + word.incorrectCount ELSE 1

\* The comparator with its operands exchanged (a.metric - b.metric).
MetricLessExchanged(a, b) == MetricNum(b) * MetricDen(a) < MetricNum(a) * MetricDen(b)

\* b.metric - a.metric > 0: the comparator puts b before a.
MetricLess(a, b) == MetricNum(a) * MetricDen(b) < MetricNum(b) * MetricDen(a)

\* Array.prototype.sort is stable: insertion behind the elements not smaller,
\* which are the first elements of the sorted array.
InsertDescBeforeEqual(sorted, x) ==
  LET ahead == Cardinality({ j \in 1..Len(sorted) : MetricLess(x, sorted[j]) })
  IN SubSeq(sorted, 1, ahead) \o <<x>> \o SubSeq(sorted, ahead + 1, Len(sorted))

InsertDesc(sorted, x) ==
  LET ahead == Cardinality({ j \in 1..Len(sorted) : ~MetricLess(sorted[j], x) })
  IN SubSeq(sorted, 1, ahead) \o <<x>> \o SubSeq(sorted, ahead + 1, Len(sorted))

RECURSIVE SortDesc(_)
SortDesc(ws) ==
  IF ws = <<>> THEN <<>>
  ELSE InsertDesc(SortDesc(SubSeq(ws, 1, Len(ws) - 1)), ws[Len(ws)])

Slice(ws, n) == SubSeq(ws, 1, IF Len(ws) < n THEN Len(ws) ELSE n)

\* The clones of all words of all lists, list by list in key order, each
\* with parentListId (and its position, a history field).
Aggregated(store) ==
  Flatten([n \in 1..Cardinality(DOMAIN store) |->
    LET list == store[KeysAscending(DOMAIN store)[n]]
    IN [k \in 1..Len(list.words) |->
          [english |-> list.words[k].english,
           hebrew |-> list.words[k].hebrew,
           status |-> list.words[k].status,
           correctStreak |-> list.words[k].correctStreak,
           correctCount |-> list.words[k].correctCount,
           incorrectCount |-> list.words[k].incorrectCount,
           parentListId |-> list.id,
           index |-> k]]])

LeastKnown(store) == Slice(SortDesc(Aggregated(store)), LeastKnownLimit)

(***************************************************************************)
(* The state after the page has loaded: openDB and the first               *)
(* populateListDropdown have completed, no session is running.             *)
(***************************************************************************)
Other == [op |-> "other"]

Init ==
  /\ lists \in InitialStores
  /\ progress = <<>>
  /\ listQ = <<>>
  /\ progQ = <<>>
  /\ dbListSelect = DOMAIN lists
  /\ currentList = <<>>
  /\ sessionWords = <<>>
  /\ currentWordIndex = -1
  /\ globalSessionMode = FALSE
  /\ progressRecorded = FALSE
  /\ sessionRecordings = 0
  /\ answeredThisWord = FALSE
  /\ clicks = 0
  /\ last = Other

(***************************************************************************)
(* User events.                                                            *)
(***************************************************************************)
Clicked == clicks < MaxClicks /\ clicks' = clicks + 1

\* loadListButton click: getListFromDB(selectedId) is issued.
ClickLoad ==
  /\ Clicked
  /\ \E selectedId \in dbListSelect :
       listQ' = Append(listQ, [op |-> "get", purpose |-> "load", id |-> selectedId])
  /\ last' = Other
  /\ UNCHANGED <<lists, progress, progQ, dbListSelect, currentList, sessionWords,
                 currentWordIndex, globalSessionMode, progressRecorded,
                 sessionRecordings, answeredThisWord>>

\* leastKnownButton click: getAllListsFromDB() is issued.
ClickLeastKnown ==
  /\ Clicked
  /\ listQ' = Append(listQ, [op |-> "getAll", purpose |-> "leastKnown"])
  /\ last' = Other
  /\ UNCHANGED <<lists, progress, progQ, dbListSelect, currentList, sessionWords,
                 currentWordIndex, globalSessionMode, progressRecorded,
                 sessionRecordings, answeredThisWord>>

\* deleteListButton click, confirmed: deleteListFromDB(selectedId) is issued.
ClickDelete ==
  /\ Clicked
  /\ \E selectedId \in dbListSelect :
       listQ' = Append(listQ, [op |-> "delete", id |-> selectedId])
  /\ last' = Other
  /\ UNCHANGED <<lists, progress, progQ, dbListSelect, currentList, sessionWords,
                 currentWordIndex, globalSessionMode, progressRecorded,
                 sessionRecordings, answeredThisWord>>

\* nextButton click.
NextWord ==
  /\ Clicked
  /\ Len(sessionWords) # 0
  /\ currentWordIndex' = nextWord(sessionWords, currentWordIndex)
  /\ answeredThisWord' = FALSE
  /\ last' = [op |-> "next", from |-> currentWordIndex]
  /\ UNCHANGED <<lists, progress, listQ, progQ, dbListSelect, currentList,
                 sessionWords, globalSessionMode, progressRecorded,
                 sessionRecordings>>

\* What checkAnswer writes to feedbackDiv.
Feedback(w, isCorrect) ==
  IF ~isCorrect THEN "Incorrect. Try again."
  ELSE IF w.status # "wrong" THEN "Correct! Word marked as known."
  ELSE IF w.correctStreak + 1 >= 2 THEN "Correct! Word is now marked as known."
  ELSE "Correct! (Answer it correctly once more to mark as known.)"

\* checkButton click: the whole of checkAnswer, recordProgress included.
\* last.shown is what the handler has displayed (feedbackDiv, alert).
CheckAnswer ==
  /\ Clicked
  /\ IF ~HasCurrentWord
     THEN /\ last' = [op |-> "checkReturned", shown |-> {}]
          /\ UNCHANGED <<listQ, progQ, currentList, sessionWords,
                         progressRecorded, sessionRecordings, answeredThisWord>>
     ELSE \E mode \in Modes, input \in UserAnswers :
       LET currentWord == sessionWords[currentWordIndex + 1]
           userAnswer == Trim(input)
           isCorrect == IsCorrect(currentWord, mode, userAnswer)
           answered == AnswerWord(currentWord, isCorrect)
           words == [sessionWords EXCEPT ![currentWordIndex + 1] = answered]
           records == AllKnown(words) /\ ~AlreadyRecorded(progressRecorded)
       IN /\ sessionWords' = words
          /\ answeredThisWord' = TRUE
          /\ IF ~globalSessionMode /\ currentList # <<>>
             THEN LET list == [currentList[1] EXCEPT
                                 !.words = CommitWord(@, answered)]
                  IN /\ currentList' = <<list>>
                     /\ listQ' = Append(listQ,
                          [op |-> "put", list |-> list, origin |-> answered.origin,
                           correctCount |-> answered.correctCount,
                           incorrectCount |-> answered.incorrectCount])
             ELSE IF globalSessionMode /\ answered.parentListId # 0
             THEN /\ listQ' = Append(listQ,
                       [op |-> "get", purpose |-> "parent",
                        id |-> answered.parentListId, word |-> answered])
                  /\ UNCHANGED currentList
             ELSE UNCHANGED <<listQ, currentList>>
          /\ IF records
             THEN /\ progressRecorded' = TRUE
                  /\ progQ' = Append(progQ,
                       [op |-> "get", wordsLearned |-> Len(words)])
                  /\ sessionRecordings' = sessionRecordings + 1
             ELSE UNCHANGED <<progressRecorded, progQ, sessionRecordings>>
          /\ last' = [op |-> "check", index |-> currentWordIndex,
                      isCorrect |-> isCorrect, before |-> currentWord,
                      again |-> answeredThisWord,
                      canonicalAnswer |-> CanonicalAnswer(currentWord, mode),
                      shown |-> {Feedback(currentWord, isCorrect)}]
  /\ UNCHANGED <<lists, progress, dbListSelect, currentWordIndex,
                 globalSessionMode>>

(***************************************************************************)
(* Completion of the request at the head of the "lists" queue, with its    *)
(* callback.  A request can fail; then its promise is rejected and no      *)
(* callback of the page runs.                                              *)
(***************************************************************************)
\* What nextWord writes to questionDiv when the session has no word.
NoWords(words) ==
  IF Len(words) = 0 THEN {"No words available in this session."} ELSE {}

\* startSession leaving the completion flag of the previous session as it is.
SessionStartedKeepsFlag(wordsArray, origins, isGlobalMode) ==
  /\ UNCHANGED progressRecorded
  /\ sessionRecordings' = 0
  /\ answeredThisWord' = FALSE
  /\ sessionWords' \in startSession(wordsArray, origins)
  /\ currentWordIndex' = nextWord(wordsArray, -1)
  /\ globalSessionMode' = isGlobalMode

\* The state startSession(wordsArray, isGlobalMode) leaves.
SessionStarted(wordsArray, origins, isGlobalMode) ==
  /\ progressRecorded' = FALSE
  /\ sessionRecordings' = 0
  /\ answeredThisWord' = FALSE
  /\ sessionWords' \in startSession(wordsArray, origins)
  /\ currentWordIndex' = nextWord(wordsArray, -1)
  /\ globalSessionMode' = isGlobalMode

DbGetList ==
  /\ UNCHANGED clicks
  /\ listQ # <<>>
  /\ Head(listQ).op = "get"
  /\ LET req == Head(listQ)
         found == req.id \in DOMAIN lists
     IN \E ok \in BOOLEAN :
          IF ok /\ found /\ req.purpose = "load"
          THEN \* loadListButton's callback
               /\ currentList' = <<lists[req.id]>>
               /\ SessionStarted(lists[req.id].words,
                    [k \in 1..Len(lists[req.id].words) |->
                       [list |-> req.id, index |-> k]],
                    FALSE)
               /\ listQ' = Tail(listQ)
               /\ last' = [op |-> "start", shown |-> NoWords(lists[req.id].words)]
          ELSE IF ok /\ found
          THEN \* checkAnswer's callback in a global session
               /\ listQ' = Append(Tail(listQ),
                    [op |-> "put",
                     list |-> [lists[req.id] EXCEPT
                                 !.words = CommitWord(@, req.word)],
                     origin |-> req.word.origin,
                     correctCount |-> req.word.correctCount,
                     incorrectCount |-> req.word.incorrectCount])
               /\ last' = Other
               /\ UNCHANGED <<currentList, sessionWords, currentWordIndex,
                              globalSessionMode, progressRecorded,
                              sessionRecordings, answeredThisWord>>
          ELSE /\ listQ' = Tail(listQ)
               /\ last' = Other
               /\ UNCHANGED <<currentList, sessionWords, currentWordIndex,
                              globalSessionMode, progressRecorded,
                              sessionRecordings, answeredThisWord>>
  /\ UNCHANGED <<lists, progress, progQ, dbListSelect>>

DbGetAll ==
  /\ UNCHANGED clicks
  /\ listQ # <<>>
  /\ Head(listQ).op = "getAll"
  /\ listQ' = Tail(listQ)
  /\ \E ok \in BOOLEAN :
       IF ok /\ Head(listQ).purpose = "leastKnown"
       THEN \* leastKnownButton's callback
            LET leastKnown == LeastKnown(lists)
            IN /\ SessionStarted(leastKnown,
                    [k \in 1..Len(leastKnown) |->
                       [list |-> leastKnown[k].parentListId,
                        index |-> leastKnown[k].index]],
                    TRUE)
               /\ last' = [op |-> "start", shown |-> NoWords(leastKnown)]
               /\ UNCHANGED dbListSelect
       ELSE IF ok
       THEN \* populateListDropdown's callback
            /\ dbListSelect' = DOMAIN lists
            /\ last' = Other
            /\ UNCHANGED <<sessionWords, currentWordIndex, globalSessionMode,
                           progressRecorded, sessionRecordings, answeredThisWord>>
       ELSE /\ last' = Other
            /\ UNCHANGED <<dbListSelect, sessionWords, currentWordIndex,
                           globalSessionMode, progressRecorded, sessionRecordings,
                           answeredThisWord>>
  /\ UNCHANGED <<lists, progress, progQ, currentList>>

DbDelete ==
  /\ UNCHANGED clicks
  /\ listQ # <<>>
  /\ Head(listQ).op = "delete"
  /\ LET selectedId == Head(listQ).id
     IN \E ok \in BOOLEAN :
          IF ok
          THEN /\ lists' = [i \in DOMAIN lists \ {selectedId} |-> lists[i]]
               \* deleteListButton's callback
               /\ listQ' = Append(Tail(listQ),
                                  [op |-> "getAll", purpose |-> "dropdown"])
               /\ IF currentList # <<>> /\ currentList[1].id = selectedId
                  THEN /\ currentList' = <<>>
                       /\ sessionWords' = <<>>
                  ELSE UNCHANGED <<currentList, sessionWords>>
          ELSE /\ listQ' = Tail(listQ)
               /\ UNCHANGED <<lists, currentList, sessionWords>>
  /\ last' = Other
  /\ UNCHANGED <<progress, progQ, dbListSelect, currentWordIndex,
                 globalSessionMode, progressRecorded, sessionRecordings,
                 answeredThisWord>>

\* updateListInDB(...).then(...): the success callback logs to the console,
\* there is no rejection callback; last.shown is what the page has displayed.
DbPut ==
  /\ UNCHANGED clicks
  /\ listQ # <<>>
  /\ Head(listQ).op = "put"
  /\ listQ' = Tail(listQ)
  /\ LET req == Head(listQ)
     IN \E ok \in BOOLEAN :
          /\ lists' = IF ok
                      THEN [i \in DOMAIN lists \cup {req.list.id} |->
                              IF i = req.list.id THEN req.list ELSE lists[i]]
                      ELSE lists
          /\ last' = [op |-> "put", ok |-> ok, id |-> req.list.id,
                      origin |-> req.origin,
                      correctCount |-> req.correctCount,
                      incorrectCount |-> req.incorrectCount,
                      shown |-> {}]
  /\ UNCHANGED <<progress, progQ, dbListSelect, currentList, sessionWords,
                 currentWordIndex, globalSessionMode, progressRecorded,
                 sessionRecordings, answeredThisWord>>

(***************************************************************************)
(* Completion of the request at the head of the "progress" queue.          *)
(***************************************************************************)
\* getProgressRecord's callback in recordProgress.
ProgressRead ==
  /\ UNCHANGED clicks
  /\ progQ # <<>>
  /\ Head(progQ).op = "get"
  /\ LET wordsLearned == Head(progQ).wordsLearned
     IN \E ok \in BOOLEAN :
          progQ' =
            IF ~ok THEN Tail(progQ)
            ELSE IF progress # <<>>
            THEN Append(Tail(progQ),
                   [op |-> "put", wordsLearned |-> wordsLearned,
                    record |-> [wordsLearned |-> progress[1].wordsLearned + wordsLearned,
                                testsDone |-> progress[1].testsDone + 1]])
            ELSE Append(Tail(progQ),
                   [op |-> "add", wordsLearned |-> wordsLearned,
                    record |-> [wordsLearned |-> wordsLearned, testsDone |-> 1]])
  /\ last' = Other
  /\ UNCHANGED <<lists, progress, listQ, dbListSelect, currentList, sessionWords,
                 currentWordIndex, globalSessionMode, progressRecorded,
                 sessionRecordings, answeredThisWord>>

\* updateProgressRecord (put) or addProgressRecord (add: fails on an existing key).
ProgressWrite ==
  /\ UNCHANGED clicks
  /\ progQ # <<>>
  /\ Head(progQ).op \in {"put", "add"}
  /\ progQ' = Tail(progQ)
  /\ LET req == Head(progQ)
     IN \E ok \in BOOLEAN :
          LET done == ok /\ (req.op = "put" \/ progress = <<>>)
          IN /\ progress' = IF done THEN <<req.record>> ELSE progress
             /\ last' = [op |-> "progressWrite", ok |-> ok, before |-> progress,
                         wordsLearned |-> req.wordsLearned]
  /\ UNCHANGED <<lists, listQ, dbListSelect, currentList, sessionWords,
                 currentWordIndex, globalSessionMode, progressRecorded,
                 sessionRecordings, answeredThisWord>>

Next ==
  \/ ClickLoad
  \/ ClickLeastKnown
  \/ ClickDelete
  \/ NextWord
  \/ CheckAnswer
  \/ DbGetList
  \/ DbGetAll
  \/ DbDelete
  \/ DbPut
  \/ ProgressRead
  \/ ProgressWrite

Spec == Init /\ [][Next]_vars

(***************************************************************************)
(* The early variant of the page (src/unnamed/part_001): one object store, *)
(* startSession keeps the word objects of the loaded list (slice), so      *)
(* checkAnswer changes the list it then puts; the least-known session is   *)
(* drawn from the loaded list.                                             *)
(***************************************************************************)
\* A session entry that is the word object itself (origin tells which one).
WordRef(word, origin) ==
  [english |-> word.english,
   hebrew |-> word.hebrew,
   status |-> word.status,
   correctCount |-> word.correctCount,
   incorrectCount |-> word.incorrectCount,
   correctStreak |-> word.correctStreak,
   parentListId |-> 0,
   origin |-> origin,
   answers |-> <<>>]

WordRefs(list) ==
  [k \in 1..Len(list.words) |->
     WordRef(list.words[k], [list |-> list.id, index |-> k])]

\* The word object after checkAnswer has changed it through the session.
Written(word, answered) ==
  [word EXCEPT !.status = answered.status,
               !.correctStreak = answered.correctStreak,
               !.correctCount = answered.correctCount,
               !.incorrectCount = answered.incorrectCount]

P1DbGetList ==
  /\ UNCHANGED clicks
  /\ listQ # <<>>
  /\ Head(listQ).op = "get"
  /\ listQ' = Tail(listQ)
  /\ LET req == Head(listQ)
     IN \E ok \in BOOLEAN :
          IF ok /\ req.id \in DOMAIN lists
          THEN /\ currentList' = <<lists[req.id]>>
               /\ sessionWords' = WordRefs(lists[req.id])
               /\ currentWordIndex' = nextWord(lists[req.id].words, -1)
               /\ answeredThisWord' = FALSE
               /\ last' = [op |-> "start", shown |-> NoWords(lists[req.id].words)]
          ELSE /\ last' = Other
               /\ UNCHANGED <<currentList, sessionWords, currentWordIndex,
                              answeredThisWord>>
  /\ UNCHANGED <<lists, progress, progQ, dbListSelect, globalSessionMode,
                 progressRecorded, sessionRecordings>>

P1LeastKnown ==
  /\ Clicked
  /\ currentList # <<>>
  /\ LET leastKnown == Slice(SortDesc(WordRefs(currentList[1])), LeastKnownLimit)
     IN /\ sessionWords' = leastKnown
        /\ currentWordIndex' = nextWord(leastKnown, -1)
        /\ last' = [op |-> "start", shown |-> NoWords(leastKnown)]
  /\ answeredThisWord' = FALSE
  /\ UNCHANGED <<lists, progress, listQ, progQ, dbListSelect, currentList,
                 globalSessionMode, progressRecorded, sessionRecordings>>

P1CheckAnswer ==
  /\ Clicked
  /\ IF ~HasCurrentWord
     THEN /\ last' = [op |-> "checkReturned", shown |-> {}]
          /\ UNCHANGED <<listQ, currentList, sessionWords, answeredThisWord>>
     ELSE \E mode \in Modes, input \in UserAnswers :
       LET currentWord == sessionWords[currentWordIndex + 1]
           userAnswer == Trim(input)
           isCorrect == IsCorrect(currentWord, mode, userAnswer)
           answered == AnswerWord(currentWord, isCorrect)
       IN /\ sessionWords' = [sessionWords EXCEPT ![currentWordIndex + 1] = answered]
          /\ answeredThisWord' = TRUE
          /\ IF currentList # <<>>
             THEN LET list == [currentList[1] EXCEPT
                                 !.words[answered.origin.index] =
                                    Written(@, answered)]
                  IN /\ currentList' = <<list>>
                     /\ listQ' = Append(listQ,
                          [op |-> "put", list |-> list, origin |-> answered.origin,
                           correctCount |-> answered.correctCount,
                           incorrectCount |-> answered.incorrectCount])
             ELSE UNCHANGED <<listQ, currentList>>
          /\ last' = [op |-> "check", index |-> currentWordIndex,
                      isCorrect |-> isCorrect, before |-> currentWord,
                      again |-> answeredThisWord,
                      canonicalAnswer |-> CanonicalAnswer(currentWord, mode),
                      shown |-> {Feedback(currentWord, isCorrect)}]
  /\ UNCHANGED <<lists, progress, progQ, dbListSelect, currentWordIndex,
                 globalSessionMode, progressRecorded, sessionRecordings>>

P1Next ==
  \/ ClickLoad
  \/ P1LeastKnown
  \/ NextWord
  \/ P1CheckAnswer
  \/ P1DbGetList
  \/ DbPut

SpecP1 == Init /\ [][P1Next]_vars

(***************************************************************************)
(* Weakest-N selection as a function of the store: the stores are drawn    *)
(* with answers recorded on a few of their words, the selections of        *)
(* src/app.js (leastKnownButton) and of src/script.js (loadLeastKnown) are *)
(* applied to them, one selection to a drawn store.                        *)
(***************************************************************************)
MaxAttempted == 2   \* words of a drawn store with answers recorded

\* The counts recorded on an attempted word.
Counts == { [correct |-> 1, incorrect |-> 0],
            [correct |-> 0, incorrect |-> 1],
            [correct |-> 1, incorrect |-> 1] }

\* Lengths of the lists of a drawn store, in key order: a pool below the
\* limit of the selection and a pool, over two lists, of one word more.
PoolShapes == { <<2>>, <<1, LeastKnownLimit>> }

\* Where the attempted words of a drawn store stand: among the first three
\* or the last three words of a list.
Positions(shape) ==
  { p \in (1..Len(shape)) \X (1..LeastKnownLimit + 1) :
      /\ p[2] <= shape[p[1]]
      /\ (p[2] <= 3 \/ p[2] > shape[p[1]] - 3) }

RECURSIVE SubsetsUpTo(_, _)
SubsetsUpTo(S, n) ==
  IF n = 0 THEN {{}}
  ELSE LET smaller == SubsetsUpTo(S, n - 1)
       IN smaller \cup { sub \cup {x} : sub \in smaller, x \in S }

\* The store of the given shape whose words at the positions of attempted have
\* the counts attempted gives them.
PractisedStore(shape, attempted) ==
  [n \in 1..Len(shape) |->
     [id |-> n, name |-> n,
      words |-> [k \in 1..shape[n] |->
        LET word == NewWord([english |-> <<64 + k>>, hebrew |-> << <<1499>> >>])
        IN IF <<n, k>> \in DOMAIN attempted
           THEN [word EXCEPT !.correctCount = attempted[<<n, k>>].correct,
                             !.incorrectCount = attempted[<<n, k>>].incorrect]
           ELSE word]]]

\* loadLeastKnown of src/script.js: ratio = attempts ? correct / attempts : 0,
\* sorted ascending by ratio, the first 20 taken.
RatioNum(word) == IF word.stats.correct + word.stats.incorrect # 0
                  THEN word.stats.correct ELSE 0
RatioDen(word) == IF word.stats.correct + word.stats.incorrect # 0
                  THEN word.stats.correct + word.stats.incorrect ELSE 1

\* a.ratio - b.ratio < 0: the comparator puts a before b.
RatioLess(a, b) == RatioNum(a) * RatioDen(b) < RatioNum(b) * RatioDen(a)

InsertAsc(sorted, x) ==
  LET ahead == Cardinality({ j \in 1..Len(sorted) : ~RatioLess(x, sorted[j]) })
  IN SubSeq(sorted, 1, ahead) \o <<x>> \o SubSeq(sorted, ahead + 1, Len(sorted))

RECURSIVE SortAsc(_)
SortAsc(ws) ==
  IF ws = <<>> THEN <<>>
  ELSE InsertAsc(SortAsc(SubSeq(ws, 1, Len(ws) - 1)), ws[Len(ws)])

\* database.lists of src/script.js holding the words of the store: allWords,
\* list by list, each word with its stats (and where it stands, for history).
allWords(store) ==
  Flatten([n \in 1..Cardinality(DOMAIN store) |->
    LET list == store[KeysAscending(DOMAIN store)[n]]
    IN [k \in 1..Len(list.words) |->
          [english |-> list.words[k].english,
           hebrewOptions |-> list.words[k].hebrew,
           stats |-> [correct |-> list.words[k].correctCount,
                      incorrect |-> list.words[k].incorrectCount],
           parentListId |-> list.id,
           index |-> k]]])

loadLeastKnown(store) == Slice(SortAsc(allWords(store)), LeastKnownLimit)

\* What a selection is observed by: which words, with which counts.
Seen(ws) ==
  [k \in 1..Len(ws) |->
     [list |-> ws[k].parentListId, index |-> ws[k].index,
      correct |-> ws[k].correctCount, incorrect |-> ws[k].incorrectCount]]
SeenStats(ws) ==
  [k \in 1..Len(ws) |->
     [list |-> ws[k].parentListId, index |-> ws[k].index,
      correct |-> ws[k].stats.correct, incorrect |-> ws[k].stats.incorrect]]

SelectInit ==
  /\ \E shape \in PoolShapes :
       \E at \in SubsetsUpTo(Positions(shape), MaxAttempted) :
         \E attempted \in [at -> Counts] :
           lists = PractisedStore(shape, attempted)
  /\ progress = <<>>
  /\ listQ = <<>>
  /\ progQ = <<>>
  /\ dbListSelect = DOMAIN lists
  /\ currentList = <<>>
  /\ sessionWords = <<>>
  /\ currentWordIndex = -1
  /\ globalSessionMode = FALSE
  /\ progressRecorded = FALSE
  /\ sessionRecordings = 0
  /\ answeredThisWord = FALSE
  /\ clicks = 0
  /\ last = Other

\* The selection of the leastKnownButton handler (src/app.js).
SelectLeastKnown ==
  /\ last = Other
  /\ last' = [op |-> "leastKnown",
              pool |-> Seen(Aggregated(lists)),
              selected |-> Seen(LeastKnown(lists))]
  /\ UNCHANGED <<lists, progress, listQ, progQ, dbListSelect, currentList,
                 sessionWords, currentWordIndex, globalSessionMode,
                 progressRecorded, sessionRecordings, answeredThisWord, clicks>>

\* loadWeakWords of src/unnamed/part_002: the words of Object.values of
\* database.lists, list by list in the order the lists were created, each
\* {question, answers, stats}; ratio = total ? correct / total : 0, sorted
\* ascending by ratio, the first 20 taken.
loadWeakWords(store) ==
  LET words == Flatten([n \in 1..Cardinality(DOMAIN store) |->
        LET list == store[KeysAscending(DOMAIN store)[n]]
        IN [k \in 1..Len(list.words) |->
              [question |-> list.words[k].english,
               answers |-> list.words[k].hebrew,
               stats |-> [correct |-> list.words[k].correctCount,
                          incorrect |-> list.words[k].incorrectCount],
               parentListId |-> list.id,
               index |-> k]]])
  IN [pool |-> words, weakest |-> Slice(SortAsc(words), LeastKnownLimit)]

\* The selection of loadWeakWords (src/unnamed/part_002).
SelectLoadWeakWords ==
  /\ last = Other
  /\ last' = [op |-> "loadWeakWords",
              pool |-> SeenStats(loadWeakWords(lists).pool),
              selected |-> SeenStats(loadWeakWords(lists).weakest)]
  /\ UNCHANGED <<lists, progress, listQ, progQ, dbListSelect, currentList,
                 sessionWords, currentWordIndex, globalSessionMode,
                 progressRecorded, sessionRecordings, answeredThisWord, clicks>>

\* The selection of loadLeastKnown (src/script.js).
SelectLoadLeastKnown ==
  /\ last = Other
  /\ last' = [op |-> "loadLeastKnown",
              pool |-> SeenStats(allWords(lists)),
              selected |-> SeenStats(loadLeastKnown(lists))]
  /\ UNCHANGED <<lists, progress, listQ, progQ, dbListSelect, currentList,
                 sessionWords, currentWordIndex, globalSessionMode,
                 progressRecorded, sessionRecordings, answeredThisWord, clicks>>

SelectNext ==
  \/ SelectLeastKnown
  \/ SelectLoadLeastKnown
  \/ SelectLoadWeakWords

SpecSelect == SelectInit /\ [][SelectNext]_vars

(***************************************************************************)
(* Ingestion as a function of the text of the file: parseDCPText of        *)
(* src/app.js and parseDCPFile of src/script.js applied to drawn texts.    *)
(***************************************************************************)
MaxLines == 4   \* lines of a drawn text

\* indexOf of a code unit: 0-based, -1 when absent.
IndexOf(str, c) ==
  IF \E i \in 1..Len(str) : str[i] = c
  THEN (CHOOSE i \in 1..Len(str) :
          str[i] = c /\ \A j \in 1..(i - 1) : str[j] # c) - 1
  ELSE -1

\* substring(from, to) and substring(from), 0-based.
Substring(str, from, to) == SubSeq(str, from + 1, to)
SubstringFrom(str, from) == SubSeq(str, from + 1, Len(str))

\* split on one code unit: the pieces between the separators, at least one.
RECURSIVE Split(_, _)
Split(str, c) ==
  IF IndexOf(str, c) < 0 THEN <<str>>
  ELSE <<Substring(str, 0, IndexOf(str, c))>>
         \o Split(SubstringFrom(str, IndexOf(str, c) + 1), c)

\* join with one code unit.
RECURSIVE Join(_, _)
Join(parts, c) ==
  IF parts = <<>> THEN <<>>
  ELSE IF Len(parts) = 1 THEN parts[1]
  ELSE parts[1] \o <<c>> \o Join(Tail(parts), c)

\* split(/\r?\n/): a carriage return right before a line feed goes with it.
SplitLines(text) ==
  LET pieces == Split(text, 10)
  IN [k \in 1..Len(pieces) |->
        IF k < Len(pieces) /\ pieces[k] # <<>> /\ pieces[k][Len(pieces[k])] = 13
        THEN SubSeq(pieces[k], 1, Len(pieces[k]) - 1)
        ELSE pieces[k]]

TrimAll(strs) == [k \in 1..Len(strs) |-> Trim(strs[k])]

StartsWith(str, prefix) ==
  Len(str) >= Len(prefix) /\ SubSeq(str, 1, Len(prefix)) = prefix

\* The loop of parseDCPText taking the answers from the separator on
\* (substring(eqIndex)) instead of from the unit after it.
RECURSIVE ParseTextLinesKeepsSeparator(_)
ParseTextLinesKeepsSeparator(lines) ==
  IF lines = <<>> THEN <<>>
  ELSE LET line == Trim(Head(lines))
           eqIndex == IndexOf(line, 61)
       IN IF line = <<64>> THEN <<>>
          ELSE IF line = <<>> THEN ParseTextLinesKeepsSeparator(Tail(lines))
          ELSE IF eqIndex > 0
          THEN << NewWord([english |-> Trim(Substring(line, 0, eqIndex)),
                           hebrew |-> TrimAll(Split(
                             Trim(SubstringFrom(line, eqIndex)), 124))]) >>
                 \o ParseTextLinesKeepsSeparator(Tail(lines))
          ELSE ParseTextLinesKeepsSeparator(Tail(lines))

\* The loop of parseDCPText over the lines, with its break at "@".
RECURSIVE ParseTextLines(_)
ParseTextLines(lines) ==
  IF lines = <<>> THEN <<>>
  ELSE LET line == Trim(Head(lines))
           eqIndex == IndexOf(line, 61)
       IN IF line = <<64>> THEN <<>>
          ELSE IF line = <<>> THEN ParseTextLines(Tail(lines))
          ELSE IF eqIndex > 0
          THEN << NewWord([english |-> Trim(Substring(line, 0, eqIndex)),
                           hebrew |-> TrimAll(Split(
                             Trim(SubstringFrom(line, eqIndex + 1)), 124))]) >>
                 \o ParseTextLines(Tail(lines))
          ELSE ParseTextLines(Tail(lines))

parseDCPText(text) == ParseTextLines(SplitLines(text))

\* The loop of parseDCPFile (src/script.js) over the lines.
RECURSIVE ParseFileLines(_)
ParseFileLines(lines) ==
  IF lines = <<>> THEN <<>>
  ELSE LET line == Trim(Head(lines))
           parts == Split(line, 61)
       IN IF line = <<>> \/ StartsWith(line, <<64>>)
          THEN ParseFileLines(Tail(lines))
          ELSE IF Len(parts) < 2 THEN ParseFileLines(Tail(lines))
          ELSE << [english |-> Trim(parts[1]),
                   hebrewOptions |-> TrimAll(Split(
                     Trim(Join(Tail(parts), 61)), 124)),
                   stats |-> [correct |-> 0, incorrect |-> 0]] >>
                 \o ParseFileLines(Tail(lines))

parseDCPFile(content) == ParseFileLines(SplitLines(content))

\* The lines a drawn text is made of: a=b, the end marker, an empty line,
\* a line without separator, a line without prompt, a line with blanks, two
\* answers and a carriage return, the end marker between blanks, a line
\* without answer, a line with a second separator and an empty answer.
FileLines ==
  { <<97, 61, 98>>,
    <<64>>,
    <<>>,
    <<98>>,
    <<61, 98>>,
    <<32, 97, 32, 61, 32, 98, 124, 99, 32, 13>>,
    <<32, 64, 32>>,
    <<97, 61>>,
    <<97, 61, 98, 61, 124, 99>> }

\* What a parse is observed by: prompt, answers and counts of each entry.
Entries(words) ==
  [k \in 1..Len(words) |->
     [prompt |-> words[k].english, answers |-> words[k].hebrew,
      correct |-> words[k].correctCount, incorrect |-> words[k].incorrectCount]]
EntriesStats(words) ==
  [k \in 1..Len(words) |->
     [prompt |-> words[k].english, answers |-> words[k].hebrewOptions,
      correct |-> words[k].stats.correct, incorrect |-> words[k].stats.incorrect]]

ParseInit ==
  /\ lists = [i \in {} |-> StoredList(i, <<>>)]
  /\ progress = <<>>
  /\ listQ = <<>>
  /\ progQ = <<>>
  /\ dbListSelect = {}
  /\ currentList = <<>>
  /\ sessionWords = <<>>
  /\ currentWordIndex = -1
  /\ globalSessionMode = FALSE
  /\ progressRecorded = FALSE
  /\ sessionRecordings = 0
  /\ answeredThisWord = FALSE
  /\ clicks = 0
  /\ \E n \in 1..MaxLines :
       \E lines \in [1..n -> FileLines] :
         last = [op |-> "text", lines |-> lines, text |-> Join(lines, 10)]

\* reader.onload of the upload handler (src/app.js): the text is parsed.
ParseText ==
  /\ last.op = "text"
  /\ last' = [op |-> "parseDCPText", lines |-> last.lines, text |-> last.text,
              words |-> Entries(parseDCPText(last.text))]
  /\ UNCHANGED <<lists, progress, listQ, progQ, dbListSelect, currentList,
                 sessionWords, currentWordIndex, globalSessionMode,
                 progressRecorded, sessionRecordings, answeredThisWord, clicks>>

\* The same text read by src/script.js.
ParseFile ==
  /\ last.op = "text"
  /\ last' = [op |-> "parseDCPFile", lines |-> last.lines, text |-> last.text,
              words |-> EntriesStats(parseDCPFile(last.text))]
  /\ UNCHANGED <<lists, progress, listQ, progQ, dbListSelect, currentList,
                 sessionWords, currentWordIndex, globalSessionMode,
                 progressRecorded, sessionRecordings, answeredThisWord, clicks>>

ParseNext ==
  \/ ParseText
  \/ ParseFile

SpecParse == ParseInit /\ [][ParseNext]_vars

(***************************************************************************)
(* The judgement of an answer as a function of the word, the direction and *)
(* the text typed: checkAnswer of src/app.js, of src/script.js and of      *)
(* src/unnamed/part_002 applied to drawn words and inputs.                 *)
(***************************************************************************)
\* A word whose first accepted answer is in Latin letters ("d=c|kaf").
Transliterated == [english |-> <<100>>, hebrew |-> << <<99>>, <<1499>> >>]

Vocabulary == {Cat, Dog, Transliterated}

\* src/script.js: the word is {english, hebrewOptions, stats}; mode is
\* "en-to-he" or "he-to-en".
ScriptIsCorrect(word, mode, userAnswer) ==
  IF mode = "en-to-he"
  THEN \E i \in 1..Len(word.hebrewOptions) : word.hebrewOptions[i] = userAnswer
  ELSE ToLowerCase(word.english) = ToLowerCase(userAnswer)

ScriptCorrectAnswerDisplay(word, mode) ==
  IF mode = "en-to-he" THEN word.hebrewOptions[1] ELSE word.english

\* src/unnamed/part_002: the word is {question, answers, stats}; mode is
\* "eng-to-heb" or "heb-to-eng".
correctAnswers(wordObj, mode) ==
  IF mode = "eng-to-heb" THEN wordObj.answers ELSE <<wordObj.question>>

Part2IsCorrect(wordObj, mode, input) ==
  \E i \in 1..Len(correctAnswers(wordObj, mode)) :
    ToLowerCase(correctAnswers(wordObj, mode)[i]) = ToLowerCase(input)

Part2CorrectAnswerDisplay(wordObj, mode) == correctAnswers(wordObj, mode)[1]

AnswerInit ==
  /\ lists = [i \in {} |-> StoredList(i, <<>>)]
  /\ progress = <<>>
  /\ listQ = <<>>
  /\ progQ = <<>>
  /\ dbListSelect = {}
  /\ currentList = <<>>
  /\ sessionWords = <<>>
  /\ currentWordIndex = -1
  /\ globalSessionMode = FALSE
  /\ progressRecorded = FALSE
  /\ sessionRecordings = 0
  /\ answeredThisWord = FALSE
  /\ clicks = 0
  /\ \E word \in Vocabulary, promptIsSource \in BOOLEAN, input \in UserAnswers :
       last = [op |-> "typed", word |-> word,
               promptIsSource |-> promptIsSource, input |-> input]

\* What a judgement is observed by: the word, the direction, the text typed,
\* the text after trim(), the verdict and the answer displayed.
Judged(op, isCorrect, shown) ==
  [op |-> op, word |-> last.word, promptIsSource |-> last.promptIsSource,
   input |-> last.input, userAnswer |-> Trim(last.input),
   isCorrect |-> isCorrect, canonicalAnswer |-> shown]

\* checkAnswer of src/app.js.
JudgeApp ==
  /\ last.op = "typed"
  /\ LET mode == IF last.promptIsSource THEN "engToHeb" ELSE "hebToEng"
         currentWord == NewWord(last.word)
     IN last' = Judged("checkAnswer",
                       IsCorrect(currentWord, mode, Trim(last.input)),
                       CanonicalAnswer(currentWord, mode))
  /\ UNCHANGED <<lists, progress, listQ, progQ, dbListSelect, currentList,
                 sessionWords, currentWordIndex, globalSessionMode,
                 progressRecorded, sessionRecordings, answeredThisWord, clicks>>

\* checkAnswer of src/script.js.
JudgeScript ==
  /\ last.op = "typed"
  /\ LET mode == IF last.promptIsSource THEN "en-to-he" ELSE "he-to-en"
         word == [english |-> last.word.english,
                  hebrewOptions |-> last.word.hebrew,
                  stats |-> [correct |-> 0, incorrect |-> 0]]
     IN last' = Judged("script.checkAnswer",
                       ScriptIsCorrect(word, mode, Trim(last.input)),
                       ScriptCorrectAnswerDisplay(word, mode))
  /\ UNCHANGED <<lists, progress, listQ, progQ, dbListSelect, currentList,
                 sessionWords, currentWordIndex, globalSessionMode,
                 progressRecorded, sessionRecordings, answeredThisWord, clicks>>

\* checkAnswer of src/unnamed/part_002.
JudgePart2 ==
  /\ last.op = "typed"
  /\ LET mode == IF last.promptIsSource THEN "eng-to-heb" ELSE "heb-to-eng"
         wordObj == [question |-> last.word.english,
                     answers |-> last.word.hebrew,
                     stats |-> [correct |-> 0, incorrect |-> 0]]
     IN last' = Judged("part_002.checkAnswer",
                       Part2IsCorrect(wordObj, mode, Trim(last.input)),
                       Part2CorrectAnswerDisplay(wordObj, mode))
  /\ UNCHANGED <<lists, progress, listQ, progQ, dbListSelect, currentList,
                 sessionWords, currentWordIndex, globalSessionMode,
                 progressRecorded, sessionRecordings, answeredThisWord, clicks>>

AnswerNext ==
  \/ JudgeApp
  \/ JudgeScript
  \/ JudgePart2

SpecAnswer == AnswerInit /\ [][AnswerNext]_vars

(***************************************************************************)
(* Import of a database file: importDatabase of src/app.js (one            *)
(* transaction over both object stores) and of src/script.js (the parsed   *)
(* object becomes the database) applied to drawn stores and drawn files.   *)
(* Here progress holds the records of several days, keyed by their date.   *)
(***************************************************************************)
MaxSnapshot == 2   \* lists, and progress records, of a drawn file

DayRecord(date, wordsLearned) ==
  [date |-> date, wordsLearned |-> wordsLearned, testsDone |-> 1]

\* The lists and the records a drawn file is made of; two of the lists have
\* the same key.
SnapshotLists ==
  { [StoredList(1, <<Dog>>) EXCEPT !.words[1].correctCount = 1],
    StoredList(1, <<Cat, Dog>>),
    StoredList(2, <<Cat>>) }
SnapshotProgress == { DayRecord(1, 1), DayRecord(2, 2) }

SeqsUpTo(S, n) == UNION { [1..m -> S] : m \in 0..n }

\* The value JSON.parse gives: members tells which of "lists" and "progress"
\* the object has.
Snapshots ==
  { [members |-> {"lists", "progress"}, lists |-> ls, progress |-> ps] :
      ls \in SeqsUpTo(SnapshotLists, MaxSnapshot),
      ps \in SeqsUpTo(SnapshotProgress, MaxSnapshot) }
  \cup { [members |-> ms, lists |-> <<>>, progress |-> <<>>] :
           ms \in {{}, {"lists"}, {"progress"}} }

\* objectStore.clear() leaving the records where they are.
clearKeepsRecords(store) == store

\* objectStore.clear().
clear(store) == [k \in {} |-> store[k]]

\* objectStore.add(record) for each record in turn, keys[k] the key of
\* records[k]: an add on a key the store holds fails, and the transaction
\* with it.
RECURSIVE addAll(_, _, _)
addAll(tx, keys, records) ==
  IF ~tx.ok \/ records = <<>> THEN tx
  ELSE IF keys[1] \in DOMAIN tx.store THEN [tx EXCEPT !.ok = FALSE]
  ELSE addAll([tx EXCEPT !.store =
                 [k \in DOMAIN tx.store \cup {keys[1]} |->
                    IF k = keys[1] THEN records[1] ELSE tx.store[k]]],
              Tail(keys), Tail(records))

ListKeys(ls) == [k \in 1..Len(ls) |-> ls[k].id]
RecordKeys(ps) == [k \in 1..Len(ps) |-> ps[k].date]

\* The JSON object whose members are the given lists, each under its key.
AsObject(ls) ==
  [i \in { ls[k].id : k \in 1..Len(ls) } |->
     ls[CHOOSE k \in 1..Len(ls) : ls[k].id = i]]

DistinctKeys(ls) == Cardinality({ ls[k].id : k \in 1..Len(ls) }) = Len(ls)

ImportInit ==
  /\ lists \in InitialStores
  /\ progress \in { <<>>, <<DayRecord(1, 3)>> }
  /\ listQ = <<>>
  /\ progQ = <<>>
  /\ dbListSelect = DOMAIN lists
  /\ currentList = <<>>
  /\ sessionWords = <<>>
  /\ currentWordIndex = -1
  /\ globalSessionMode = FALSE
  /\ progressRecorded = FALSE
  /\ sessionRecordings = 0
  /\ answeredThisWord = FALSE
  /\ clicks = 0
  /\ \E data \in Snapshots : last = [op |-> "file", data |-> data]

\* What is observed of the store before an import.
StoreKeys == [lists |-> DOMAIN lists, progress |-> DOMAIN progress]

\* reader.onload of importDatabase (src/app.js): the text is parsed and
\* validated, the transaction is opened.
ImportDatabase ==
  /\ last.op = "file"
  /\ \E parsed \in BOOLEAN :
       IF ~parsed
       THEN /\ last' = [op |-> "importDatabase", shown |-> {"Error parsing JSON."}]
            /\ UNCHANGED listQ
       ELSE IF "lists" \notin last.data.members
                 \/ "progress" \notin last.data.members
       THEN /\ last' = [op |-> "importDatabase",
                        shown |-> {"Invalid database file."}]
            /\ UNCHANGED listQ
       ELSE /\ listQ' = Append(listQ, [op |-> "import", data |-> last.data])
            /\ last' = [op |-> "importing"]
  /\ UNCHANGED <<lists, progress, progQ, dbListSelect, currentList,
                 sessionWords, currentWordIndex, globalSessionMode,
                 progressRecorded, sessionRecordings, answeredThisWord, clicks>>

\* The transaction of importDatabase completes (oncomplete) or aborts
\* (onerror): both stores are cleared and filled, or both are left as they
\* were.
DbImport ==
  /\ listQ # <<>>
  /\ Head(listQ).op = "import"
  /\ LET data == Head(listQ).data
         listsTx == addAll([ok |-> TRUE, store |-> clear(lists)],
                           ListKeys(data.lists), data.lists)
         progressTx == addAll([ok |-> TRUE, store |-> clear(progress)],
                              RecordKeys(data.progress), data.progress)
     IN \E ok \in BOOLEAN :
          IF ok /\ listsTx.ok /\ progressTx.ok
          THEN /\ lists' = listsTx.store
               /\ progress' = progressTx.store
               /\ listQ' = Append(Tail(listQ),
                                  [op |-> "getAll", purpose |-> "dropdown"])
               /\ last' = [op |-> "imported", data |-> data, before |-> StoreKeys,
                           shown |-> {"Database imported successfully."}]
          ELSE /\ listQ' = Tail(listQ)
               /\ last' = [op |-> "imported", data |-> data, before |-> StoreKeys,
                           shown |-> {"Error importing database."}]
               /\ UNCHANGED <<lists, progress>>
  /\ UNCHANGED <<progQ, dbListSelect, currentList, sessionWords,
                 currentWordIndex, globalSessionMode, progressRecorded,
                 sessionRecordings, answeredThisWord, clicks>>

\* reader.onload of importDatabase (src/script.js), the file a JSON object
\* with one member per key: the parsed object becomes the database, the
\* dropdown is filled, the database is saved.
ScriptImportDatabase ==
  /\ last.op = "file"
  /\ DistinctKeys(last.data.lists)
  /\ \E parsed \in BOOLEAN :
       IF parsed
       THEN /\ lists' = AsObject(last.data.lists)
            /\ progress' = last.data.progress
            /\ dbListSelect' = DOMAIN lists'
            /\ last' = [op |-> "script.importDatabase", data |-> last.data,
                        before |-> StoreKeys,
                        shown |-> {"Database imported successfully."}]
       ELSE /\ last' = [op |-> "script.importDatabase", data |-> last.data,
                        before |-> StoreKeys,
                        shown |-> {"Error importing database: "}]
            /\ UNCHANGED <<lists, progress, dbListSelect>>
  /\ UNCHANGED <<listQ, progQ, currentList, sessionWords, currentWordIndex,
                 globalSessionMode, progressRecorded, sessionRecordings,
                 answeredThisWord, clicks>>

ImportNext ==
  \/ ImportDatabase
  \/ DbImport
  \/ DbGetAll
  \/ ScriptImportDatabase

SpecImport == ImportInit /\ [][ImportNext]_vars

(***************************************************************************)
(* The cursor as a function of the number of advances: nextWord of         *)
(* src/app.js applied again and again to a drawn session, from the state   *)
(* startSession leaves.  last.presented is the history of the cursor.      *)
(***************************************************************************)
MaxAdvances == 6   \* calls of nextWord after the start of a session

\* The lists a session is drawn from.
AdvanceLists == { <<Cat>>, <<Cat, Dog>>, <<Cat, Dog, Transliterated>> }

AdvanceInit ==
  /\ lists = [i \in {} |-> StoredList(i, <<>>)]
  /\ progress = <<>>
  /\ listQ = <<>>
  /\ progQ = <<>>
  /\ dbListSelect = {}
  /\ currentList = <<>>
  /\ \E keys \in AdvanceLists :
       LET wordsArray == StoredList(1, keys).words
       IN /\ \E words \in startSession(wordsArray,
                            [k \in 1..Len(wordsArray) |-> [list |-> 1, index |-> k]]) :
               \E status \in [1..Len(words) -> {"default", "wrong", "known"}] :
                 sessionWords = [k \in 1..Len(words) |->
                                   [words[k] EXCEPT !.status = status[k]]]
          /\ currentWordIndex = nextWord(wordsArray, -1)
  /\ globalSessionMode = FALSE
  /\ progressRecorded = FALSE
  /\ sessionRecordings = 0
  /\ answeredThisWord = FALSE
  /\ clicks = 0
  /\ last = [op |-> "advances", presented |-> <<>>]

\* nextButton click: nextWord().
AdvanceNext ==
  /\ Len(last.presented) < MaxAdvances
  /\ Len(sessionWords) # 0
  /\ currentWordIndex' = nextWord(sessionWords, currentWordIndex)
  /\ answeredThisWord' = FALSE
  /\ last' = [op |-> "advances",
              presented |-> Append(last.presented, currentWordIndex')]
  /\ UNCHANGED <<lists, progress, listQ, progQ, dbListSelect, currentList,
                 sessionWords, globalSessionMode, progressRecorded,
                 sessionRecordings, clicks>>

AdvanceNextStep ==
  \/ AdvanceNext

SpecAdvance == AdvanceInit /\ [][AdvanceNextStep]_vars

(***************************************************************************)
(* A user who practises a loaded list until the session is complete: Check *)
(* and Next Word in alternation, a bounded number of incorrect answers,    *)
(* then correct answers only; the requests of the page complete in the     *)
(* background.                                                             *)
(***************************************************************************)
MaxMistakes == 1   \* incorrect answers of one session

\* Correct answers one word is given: enough for every word to be answered
\* correctly twice in a row after the last incorrect answer of the session.
MaxCorrect == 2 * MaxMistakes + 2

RECURSIVE Mistakes(_)
Mistakes(words) ==
  IF words = <<>> THEN 0
  ELSE Len(SelectSeq(Head(words).answers, LAMBDA a : ~a)) + Mistakes(Tail(words))

\* The session is complete: every word is known and recordProgress has run.
Complete == AllKnown(sessionWords) /\ progressRecorded

\* The state after a list with words has been loaded.
LiveInit ==
  /\ lists \in { store \in InitialStores :
                   \E i \in DOMAIN store : Len(store[i].words) > 0 }
  /\ progress = <<>>
  /\ listQ = <<>>
  /\ progQ = <<>>
  /\ dbListSelect = DOMAIN lists
  /\ \E id \in DOMAIN lists :
       /\ currentList = <<lists[id]>>
       /\ sessionWords \in startSession(lists[id].words,
            [k \in 1..Len(lists[id].words) |-> [list |-> id, index |-> k]])
       /\ currentWordIndex = nextWord(lists[id].words, -1)
  /\ globalSessionMode = FALSE
  /\ progressRecorded = FALSE
  /\ sessionRecordings = 0
  /\ answeredThisWord = FALSE
  /\ clicks = 0
  /\ last = Other

\* checkButton click on a word not yet answered since it was presented: the
\* whole of checkAnswer, recordProgress included.
LiveCheck ==
  /\ ~Complete
  /\ ~answeredThisWord
  /\ HasCurrentWord
  /\ \E mode \in Modes, input \in UserAnswers :
       LET currentWord == sessionWords[currentWordIndex + 1]
           userAnswer == Trim(input)
           isCorrect == IsCorrect(currentWord, mode, userAnswer)
           answered == AnswerWord(currentWord, isCorrect)
           words == [sessionWords EXCEPT ![currentWordIndex + 1] = answered]
           records == AllKnown(words) /\ ~AlreadyRecorded(progressRecorded)
       IN /\ IF isCorrect
             THEN Len(SelectSeq(currentWord.answers, LAMBDA a : a)) < MaxCorrect
             ELSE Mistakes(sessionWords) < MaxMistakes
          /\ sessionWords' = words
          /\ answeredThisWord' = TRUE
          /\ IF ~globalSessionMode /\ currentList # <<>>
             THEN LET list == [currentList[1] EXCEPT
                                 !.words = CommitWord(@, answered)]
                  IN /\ currentList' = <<list>>
                     /\ listQ' = Append(listQ,
                          [op |-> "put", list |-> list, origin |-> answered.origin,
                           correctCount |-> answered.correctCount,
                           incorrectCount |-> answered.incorrectCount])
             ELSE UNCHANGED <<listQ, currentList>>
          /\ IF records
             THEN /\ progressRecorded' = TRUE
                  /\ progQ' = Append(progQ,
                       [op |-> "get", wordsLearned |-> Len(words)])
                  /\ sessionRecordings' = sessionRecordings + 1
             ELSE UNCHANGED <<progressRecorded, progQ, sessionRecordings>>
  /\ last' = Other
  /\ UNCHANGED <<lists, progress, dbListSelect, currentWordIndex,
                 globalSessionMode, clicks>>

\* nextButton click after the word has been answered.
LiveNextWord ==
  /\ ~Complete
  /\ answeredThisWord
  /\ Len(sessionWords) # 0
  /\ currentWordIndex' = nextWord(sessionWords, currentWordIndex)
  /\ answeredThisWord' = FALSE
  /\ last' = Other
  /\ UNCHANGED <<lists, progress, listQ, progQ, dbListSelect, currentList,
                 sessionWords, globalSessionMode, progressRecorded,
                 sessionRecordings, clicks>>

LiveNext ==
  \/ LiveCheck
  \/ LiveNextWord
  \/ DbPut
  \/ ProgressRead
  \/ ProgressWrite

\* The user keeps clicking and every request completes.
SpecLive ==
  /\ LiveInit
  /\ [][LiveNext]_vars
  /\ WF_vars(LiveCheck)
  /\ WF_vars(LiveNextWord)
  /\ WF_vars(DbPut)
  /\ WF_vars(ProgressRead)
  /\ WF_vars(ProgressWrite)

(***************************************************************************)
(* A database file is imported while a loaded list is practised            *)
(* (src/app.js): the transaction of importDatabase and the puts of         *)
(* checkAnswer share the queue of the store.  No session of such a run     *)
(* completes a write of the progress store, which is empty until the       *)
(* import has filled it.                                                   *)
(***************************************************************************)
MaxRaceChecks == 2   \* Check clicks of one run

\* Files of one list and one progress record.
RaceFiles ==
  { [members |-> {"lists", "progress"}, lists |-> <<list>>,
     progress |-> <<DayRecord(1, 1)>>] : list \in SnapshotLists }

\* The state after a list with words has been loaded and a file chosen.
RaceInit ==
  /\ lists \in { store \in InitialStores :
                   \E i \in DOMAIN store : Len(store[i].words) > 0 }
  /\ progress = <<>>
  /\ listQ = <<>>
  /\ progQ = <<>>
  /\ dbListSelect = DOMAIN lists
  /\ \E id \in DOMAIN lists :
       /\ currentList = <<lists[id]>>
       /\ sessionWords \in startSession(lists[id].words,
            [k \in 1..Len(lists[id].words) |-> [list |-> id, index |-> k]])
       /\ currentWordIndex = nextWord(lists[id].words, -1)
  /\ globalSessionMode = FALSE
  /\ progressRecorded = FALSE
  /\ sessionRecordings = 0
  /\ answeredThisWord = FALSE
  /\ clicks = 0
  /\ \E data \in RaceFiles : last = [op |-> "file", data |-> data]

RaceCheckAnswer ==
  /\ clicks < MaxRaceChecks
  /\ CheckAnswer

RaceNext ==
  \/ ImportDatabase
  \/ DbImport
  \/ DbGetAll
  \/ RaceCheckAnswer
  \/ DbPut

SpecImportRace == RaceInit /\ [][RaceNext]_vars

(***************************************************************************)
(* Sessions completing on one day (src/app.js): each completion calls      *)
(* recordProgress, whose read of today's record and whose write are two    *)
(* requests on the queue of the progress store.  last keeps the sizes of   *)
(* the sessions that have completed, the record the day began with, and    *)
(* whether a request has failed.                                           *)
(***************************************************************************)
MaxSessions == 2   \* sessions completing in one run
MaxSessionWords == 3

RecordInit ==
  /\ lists = [i \in {1} |-> StoredList(i, <<Cat>>)]
  /\ progress \in { <<>>, <<[wordsLearned |-> 3, testsDone |-> 1]>> }
  /\ listQ = <<>>
  /\ progQ = <<>>
  /\ dbListSelect = DOMAIN lists
  /\ currentList = <<>>
  /\ sessionWords = <<>>
  /\ currentWordIndex = -1
  /\ globalSessionMode = FALSE
  /\ progressRecorded = FALSE
  /\ sessionRecordings = 0
  /\ answeredThisWord = FALSE
  /\ clicks = 0
  /\ last = [op |-> "recording", sessions |-> <<>>, before |-> progress,
             failed |-> FALSE]

\* recordProgress(wordsLearned) as the completing checkAnswer of a new
\* session calls it: startSession has cleared progressRecorded.
RecordProgress ==
  /\ Len(last.sessions) < MaxSessions
  /\ \E wordsLearned \in 1..MaxSessionWords :
       /\ progQ' = Append(progQ, [op |-> "get", wordsLearned |-> wordsLearned])
       /\ last' = [last EXCEPT !.sessions = Append(@, wordsLearned)]
  /\ progressRecorded' = TRUE
  /\ UNCHANGED <<lists, progress, listQ, dbListSelect, currentList,
                 sessionWords, currentWordIndex, globalSessionMode,
                 sessionRecordings, answeredThisWord, clicks>>

\* getProgressRecord(dateStr).then(...): the callback issues the put of the
\* incremented record, or the add of a new one.
RecordRead ==
  /\ progQ # <<>>
  /\ Head(progQ).op = "get"
  /\ LET wordsLearned == Head(progQ).wordsLearned
     IN \E ok \in BOOLEAN :
          /\ progQ' =
               IF ~ok THEN Tail(progQ)
               ELSE IF progress # <<>>
               THEN Append(Tail(progQ),
                      [op |-> "put", wordsLearned |-> wordsLearned,
                       record |-> [wordsLearned |-> progress[1].wordsLearned + wordsLearned,
                                   testsDone |-> progress[1].testsDone + 1]])
               ELSE Append(Tail(progQ),
                      [op |-> "add", wordsLearned |-> wordsLearned,
                       record |-> [wordsLearned |-> wordsLearned, testsDone |-> 1]])
          /\ last' = [last EXCEPT !.failed = @ \/ ~ok]
  /\ UNCHANGED <<lists, progress, listQ, dbListSelect, currentList, sessionWords,
                 currentWordIndex, globalSessionMode, progressRecorded,
                 sessionRecordings, answeredThisWord, clicks>>

\* updateProgressRecord (put) or addProgressRecord (add: rejected on an
\* existing key); failed is set by a failure of the store only.
RecordWrite ==
  /\ progQ # <<>>
  /\ Head(progQ).op \in {"put", "add"}
  /\ progQ' = Tail(progQ)
  /\ LET req == Head(progQ)
     IN \E ok \in BOOLEAN :
          LET done == ok /\ (req.op = "put" \/ progress = <<>>)
          IN /\ progress' = IF done THEN <<req.record>> ELSE progress
             /\ last' = [last EXCEPT !.failed = @ \/ ~ok]
  /\ UNCHANGED <<lists, listQ, dbListSelect, currentList, sessionWords,
                 currentWordIndex, globalSessionMode, progressRecorded,
                 sessionRecordings, answeredThisWord, clicks>>

RecordNext ==
  \/ RecordProgress
  \/ RecordRead
  \/ RecordWrite

SpecRecord == RecordInit /\ [][RecordNext]_vars

(***************************************************************************)
(* The session of src/unnamed/part_002.  database.lists is lists, each     *)
(* word {question, answers, stats}; currentWords is sessionWords and holds *)
(* the word objects of the database themselves (origin says which);        *)
(* currentListID is currentList; database.dailyProgress, one day long, is  *)
(* progress.  Everything is synchronous.                                   *)
(***************************************************************************)
WeakWordsID == 0   \* stands for the list ID "weak-words"

Part2Modes == {"eng-to-heb", "heb-to-eng"}

Part2Words(list) ==
  [k \in 1..Len(list.words) |->
     [question |-> list.words[k].english,
      answers |-> list.words[k].hebrew,
      stats |-> [correct |-> list.words[k].correctCount,
                 incorrect |-> list.words[k].incorrectCount],
      origin |-> [list |-> list.id, index |-> k]]]

\* The database after stats of the word at origin has changed.
WithStats(store, origin, stats) ==
  IF origin.list \in DOMAIN store
  THEN [store EXCEPT ![origin.list].words[origin.index] =
          [@ EXCEPT !.correctCount = stats.correct,
                    !.incorrectCount = stats.incorrect]]
  ELSE store

\* recordDailyProgress of part_002 on the record of today.
Part2RecordDailyProgress(days) ==
  IF days = <<>> THEN <<[listsCompleted |-> 1]>>
  ELSE <<[listsCompleted |-> days[1].listsCompleted + 1]>>

Part2Init ==
  /\ lists \in InitialStores
  /\ progress = <<>>
  /\ listQ = <<>>
  /\ progQ = <<>>
  /\ dbListSelect = DOMAIN lists
  /\ currentList = <<>>
  /\ sessionWords = <<>>
  /\ currentWordIndex = 0
  /\ globalSessionMode = FALSE
  /\ progressRecorded = FALSE
  /\ sessionRecordings = 0
  /\ answeredThisWord = FALSE
  /\ clicks = 0
  /\ last = Other

\* startSession(listID, wordsArray); displayCurrentWord at its end throws on
\* an empty array, after the assignments.
Part2StartSession(listID, wordsArray) ==
  /\ currentList' = <<[id |-> listID]>>
  /\ sessionWords' \in shuffle(wordsArray)
  /\ currentWordIndex' = 0
  /\ last' = [op |-> "start"]

\* list-select change.
Part2SelectList ==
  /\ Clicked
  /\ \E listID \in DOMAIN lists :
       Part2StartSession(listID, Part2Words(lists[listID]))
  /\ UNCHANGED lists
  /\ UNCHANGED answeredThisWord
  /\ UNCHANGED <<progress, listQ, progQ, dbListSelect, globalSessionMode,
                 progressRecorded, sessionRecordings>>

\* load-weak-words click (the ratio written to each word is a function of
\* its stats and is not kept).
Part2LoadWeakWords ==
  /\ Clicked
  /\ LET weakest == loadWeakWords(lists).weakest
     IN Part2StartSession(WeakWordsID,
          [k \in 1..Len(weakest) |->
             [question |-> weakest[k].question,
              answers |-> weakest[k].answers,
              stats |-> weakest[k].stats,
              origin |-> [list |-> weakest[k].parentListId,
                          index |-> weakest[k].index]]])
  /\ UNCHANGED lists
  /\ UNCHANGED answeredThisWord
  /\ UNCHANGED <<progress, listQ, progQ, dbListSelect, globalSessionMode,
                 progressRecorded, sessionRecordings>>

\* check-answer click; with no word at currentWordIndex the read of
\* wordObj.answers throws before anything is assigned.
Part2CheckAnswer ==
  /\ Clicked
  /\ currentWordIndex \in 0..(Len(sessionWords) - 1)
  /\ \E mode \in Part2Modes, typed \in UserAnswers :
       LET input == Trim(typed)
           wordObj == sessionWords[currentWordIndex + 1]
           isCorrect == Part2IsCorrect(wordObj, mode, input)
           stats == IF isCorrect
                    THEN [wordObj.stats EXCEPT !.correct = @ + 1]
                    ELSE [wordObj.stats EXCEPT !.incorrect = @ + 1]
       IN /\ sessionWords' =
               [sessionWords EXCEPT ![currentWordIndex + 1].stats = stats]
          /\ lists' = WithStats(lists, wordObj.origin, stats)
          /\ last' = [op |-> "check", index |-> currentWordIndex,
                      isCorrect |-> isCorrect]
  /\ UNCHANGED <<currentList, currentWordIndex, answeredThisWord>>
  /\ UNCHANGED <<progress, listQ, progQ, dbListSelect, globalSessionMode,
                 progressRecorded, sessionRecordings>>

\* next-word click; displayCurrentWord at its end throws on an empty
\* session, after the assignments.
Part2NextWord ==
  /\ Clicked
  /\ IF currentWordIndex + 1 >= Len(sessionWords)
     THEN /\ progress' = Part2RecordDailyProgress(progress)
          /\ currentWordIndex' = 0
     ELSE /\ currentWordIndex' = currentWordIndex + 1
          /\ UNCHANGED progress
  /\ last' = [op |-> "next", from |-> currentWordIndex]
  /\ UNCHANGED <<lists, currentList, sessionWords, answeredThisWord>>
  /\ UNCHANGED <<listQ, progQ, dbListSelect, globalSessionMode,
                 progressRecorded, sessionRecordings>>

\* delete-list click, confirmed.
Part2DeleteCurrentList ==
  /\ Clicked
  /\ currentList # <<>>
  /\ lists' = [i \in DOMAIN lists \ {currentList[1].id} |-> lists[i]]
  /\ dbListSelect' = DOMAIN lists'
  /\ currentList' = <<>>
  /\ sessionWords' = <<>>
  /\ currentWordIndex' = 0
  /\ last' = [op |-> "delete"]
  /\ UNCHANGED answeredThisWord
  /\ UNCHANGED <<progress, listQ, progQ, globalSessionMode,
                 progressRecorded, sessionRecordings>>

Part2Next ==
  \/ Part2SelectList
  \/ Part2LoadWeakWords
  \/ Part2CheckAnswer
  \/ Part2NextWord
  \/ Part2DeleteCurrentList

SpecPart2 == Part2Init /\ [][Part2Next]_vars

(***************************************************************************)
(* The test session of src/script.js (its later version, with startTest).  *)
(* database.lists is lists, each word {english, hebrewOptions, stats};     *)
(* currentSession is sessionWords and holds the word objects of the        *)
(* database themselves; database.dailyProgress, one day long, is progress. *)
(***************************************************************************)
ScriptModes == {"en-to-he", "he-to-en"}

ScriptWords(list) ==
  [k \in 1..Len(list.words) |->
     [english |-> list.words[k].english,
      hebrewOptions |-> list.words[k].hebrew,
      stats |-> [correct |-> list.words[k].correctCount,
                 incorrect |-> list.words[k].incorrectCount],
      origin |-> [list |-> list.id, index |-> k]]]

\* recordDailyProgress of src/script.js on the record of today.
ScriptRecordDailyProgress(days, session) ==
  LET sessionCorrect ==
        Cardinality({ k \in 1..Len(session) : session[k].stats.correct > 0 })
      known == IF days = <<>> THEN 0 ELSE days[1].knownCount
  IN <<[knownCount |-> known + sessionCorrect, listsCompleted |-> 0]>>

ScriptInit ==
  /\ lists \in InitialStores
  /\ progress = <<>>
  /\ listQ = <<>>
  /\ progQ = <<>>
  /\ dbListSelect = DOMAIN lists
  /\ currentList = <<>>
  /\ sessionWords = <<>>
  /\ currentWordIndex = -1
  /\ globalSessionMode = FALSE
  /\ progressRecorded = FALSE
  /\ sessionRecordings = 0
  /\ answeredThisWord = FALSE
  /\ clicks = 0
  /\ last = Other

\* start-test-btn click with a list selected.
ScriptStartTest ==
  /\ Clicked
  /\ \E selectedList \in DOMAIN lists :
       /\ currentList' = <<[id |-> selectedList]>>
       /\ IF Len(lists[selectedList].words) = 0
          THEN /\ sessionWords' = <<>>
               /\ last' = [op |-> "start",
                           shown |-> {"The selected list is empty."}]
          ELSE /\ sessionWords' \in shuffle(ScriptWords(lists[selectedList]))
               /\ last' = [op |-> "start", shown |-> {}]
  /\ currentWordIndex' = -1
  /\ answeredThisWord' = FALSE
  /\ UNCHANGED lists
  /\ UNCHANGED <<progress, listQ, progQ, dbListSelect, globalSessionMode,
                 progressRecorded, sessionRecordings>>

\* next-word-btn click.
ScriptNextWord ==
  /\ Clicked
  /\ IF Len(sessionWords) = 0
     THEN /\ last' = [op |-> "next", from |-> currentWordIndex,
                      shown |-> {"No active test session. Please click 'Start Test' first."}]
          /\ UNCHANGED <<progress, sessionWords, currentWordIndex,
                         answeredThisWord>>
     ELSE IF currentWordIndex + 1 >= Len(sessionWords)
     THEN /\ progress' = ScriptRecordDailyProgress(progress, sessionWords)
          /\ sessionWords' = <<>>
          /\ currentWordIndex' = -1
          /\ last' = [op |-> "next", from |-> currentWordIndex,
                      shown |-> {"You have reached the end of this session."}]
          /\ UNCHANGED answeredThisWord
     ELSE /\ currentWordIndex' = currentWordIndex + 1
          /\ answeredThisWord' = FALSE
          /\ last' = [op |-> "next", from |-> currentWordIndex, shown |-> {}]
          /\ UNCHANGED <<progress, sessionWords>>
  /\ UNCHANGED <<lists, currentList>>
  /\ UNCHANGED <<listQ, progQ, dbListSelect, globalSessionMode,
                 progressRecorded, sessionRecordings>>

\* check-answer-btn click.
ScriptCheckAnswer ==
  /\ Clicked
  /\ IF currentWordIndex < 0 \/ currentWordIndex >= Len(sessionWords)
     THEN /\ last' = [op |-> "checkReturned",
                      shown |-> {"Please click 'Next Word' first."}]
          /\ UNCHANGED <<lists, sessionWords, answeredThisWord>>
     ELSE IF answeredThisWord
     THEN /\ last' = [op |-> "checkReturned", shown |-> {}]
          /\ UNCHANGED <<lists, sessionWords, answeredThisWord>>
     ELSE \E mode \in ScriptModes, typed \in UserAnswers :
       LET word == sessionWords[currentWordIndex + 1]
           userAnswer == Trim(typed)
           isCorrect == ScriptIsCorrect(word, mode, userAnswer)
           stats == IF isCorrect
                    THEN [word.stats EXCEPT !.correct = @ + 1]
                    ELSE [word.stats EXCEPT !.incorrect = @ + 1]
       IN /\ sessionWords' =
               [sessionWords EXCEPT ![currentWordIndex + 1].stats = stats]
          /\ lists' = WithStats(lists, word.origin, stats)
          /\ answeredThisWord' = TRUE
          /\ last' = [op |-> "check", index |-> currentWordIndex,
                      isCorrect |-> isCorrect, shown |-> {}]
  /\ UNCHANGED <<currentList, currentWordIndex>>
  /\ UNCHANGED <<progress, listQ, progQ, dbListSelect, globalSessionMode,
                 progressRecorded, sessionRecordings>>

\* delete-list-btn click, confirmed: the session, if any, goes on with the
\* word objects it holds.
ScriptDeleteList ==
  /\ Clicked
  /\ \E listName \in DOMAIN lists :
       lists' = [i \in DOMAIN lists \ {listName} |-> lists[i]]
  /\ dbListSelect' = DOMAIN lists'
  /\ last' = [op |-> "delete", shown |-> {"List deleted."}]
  /\ UNCHANGED <<currentList, sessionWords, currentWordIndex,
                 answeredThisWord>>
  /\ UNCHANGED <<progress, listQ, progQ, globalSessionMode,
                 progressRecorded, sessionRecordings>>

ScriptNext ==
  \/ ScriptStartTest
  \/ ScriptNextWord
  \/ ScriptCheckAnswer
  \/ ScriptDeleteList

SpecScript == ScriptInit /\ [][ScriptNext]_vars

(***************************************************************************)
(* Properties.                                                             *)
(***************************************************************************)
Checked == last.op = "check"
CheckedWord == sessionWords[last.index + 1]

SameMastery(w, v) ==
  /\ w.status = v.status
  /\ w.correctStreak = v.correctStreak
  /\ w.correctCount = v.correctCount
  /\ w.incorrectCount = v.incorrectCount

\* C1 (as claimed): a checkAnswer on a word that is known leaves its status,
\* its streak and its counts as they were.
C1_MasteredIsTerminal ==
  Checked /\ last.before.status = "known" => SameMastery(CheckedWord, last.before)

\* C2: a correct checkAnswer on a word with status "default" leaves it "known".
C2_FreshCorrectIsKnown ==
  Checked /\ last.isCorrect /\ last.before.status = "default"
    => CheckedWord.status = "known"

C2_Witness ==
  /\ Checked /\ last.isCorrect /\ last.before.status = "default"
  /\ last.before.answers = <<>>
  /\ CheckedWord.status = "known"

\* C3: a correct checkAnswer on a word with status "wrong" adds exactly 1 to its
\* streak; the word is "known" iff the new streak is at least 2 and stays
\* "wrong" otherwise.
C3_MissedCorrectCountsStreak ==
  Checked /\ last.isCorrect /\ last.before.status = "wrong"
    => /\ CheckedWord.correctStreak = last.before.correctStreak + 1
       /\ (CheckedWord.status = "known") <=> (CheckedWord.correctStreak >= 2)
       /\ CheckedWord.status # "known" => CheckedWord.status = "wrong"

C3_Witness ==
  /\ Checked /\ last.isCorrect /\ last.before.status = "wrong"
  /\ last.before.correctStreak = 1
  /\ CheckedWord.correctStreak = 2
  /\ CheckedWord.status = "known"

\* C4: an incorrect checkAnswer on a word with status "default" or "wrong"
\* leaves it "wrong" with streak 0.
C4_IncorrectIsMissedStreakZero ==
  Checked /\ ~last.isCorrect /\ last.before.status \in {"default", "wrong"}
    => CheckedWord.status = "wrong" /\ CheckedWord.correctStreak = 0

C4_Witness ==
  /\ Checked /\ ~last.isCorrect /\ last.before.status = "wrong"
  /\ last.before.correctStreak = 1
  /\ CheckedWord.status = "wrong" /\ CheckedWord.correctStreak = 0

\* C5: a word whose last two answers were incorrect, correct is "wrong" with
\* streak 1 (so a missed word answered correct, incorrect, correct is not
\* known), and a word that has been missed in the session is "known" only if
\* its last two answers were both correct.
LastTwo(w) == SubSeq(w.answers, Len(w.answers) - 1, Len(w.answers))

C5_TwoConsecutiveAfterMiss ==
  \A i \in 1..Len(sessionWords) :
    LET w == sessionWords[i]
    IN /\ Len(w.answers) >= 2 /\ LastTwo(w) = <<FALSE, TRUE>>
            => w.status = "wrong" /\ w.correctStreak = 1
       /\ w.status = "known" /\ (\E n \in 1..Len(w.answers) : ~w.answers[n])
            => Len(w.answers) >= 2 /\ LastTwo(w) = <<TRUE, TRUE>>

C5_Witness ==
  \E i \in 1..Len(sessionWords) :
    /\ sessionWords[i].answers = <<FALSE, TRUE, FALSE, TRUE>>
    /\ sessionWords[i].status = "wrong"
    /\ sessionWords[i].correctStreak = 1

\* C6: a session issues the progress recorder's read-and-write of the daily
\* record at most once.
C6_RecordedAtMostOnce == sessionRecordings <= 1

\* All words known, after one of them had been known, was missed and has been
\* answered correctly twice again.
C6_Witness ==
  /\ sessionRecordings = 1
  /\ Checked
  /\ AllKnown(sessionWords)
  /\ CheckedWord.answers = <<TRUE, FALSE, TRUE, TRUE>>

\* C7 (as claimed): when the write of the daily record that a completed
\* session issues has run without a storage failure, testsDone is 1 higher
\* and wordsLearned is higher by the number of words of that session than the
\* store held before.
StoredTests(p) == IF p = <<>> THEN 0 ELSE p[1].testsDone
StoredWords(p) == IF p = <<>> THEN 0 ELSE p[1].wordsLearned

C7_CompletionAddsToDailyRecord ==
  last.op = "progressWrite" /\ last.ok
    => /\ StoredTests(progress) = StoredTests(last.before) + 1
       /\ StoredWords(progress) = StoredWords(last.before) + last.wordsLearned

\* C8 (as claimed): every word of a global session carries the id of the list
\* it was taken from.
C8_GlobalWordsCarryListId ==
  globalSessionMode
    => \A i \in 1..Len(sessionWords) :
         sessionWords[i].parentListId = sessionWords[i].origin.list

\* C9 (as claimed): when the put issued by a checkAnswer has succeeded, the
\* stored WordEntry the checked session word was copied from has the counts
\* the session word had after that check.
C9_CommitReachesOwnEntry ==
  last.op = "put" /\ last.ok
    => /\ lists[last.id].words[last.origin.index].correctCount = last.correctCount
       /\ lists[last.id].words[last.origin.index].incorrectCount = last.incorrectCount

\* C10 (as claimed): every WordEntry in the store has status "default".
C10_StoredStatusIsNeutral ==
  \A id \in DOMAIN lists :
    \A k \in 1..Len(lists[id].words) : lists[id].words[k].status = "default"

\* C11 (as claimed): a checkAnswer on the current word when checkAnswer has
\* already run on it since the cursor last moved leaves the word's status,
\* streak and counts as they were.
C11_SecondCheckIgnored ==
  Checked /\ last.again => SameMastery(CheckedWord, last.before)

\* C12 (as claimed): a click on Check with no current word changes neither the
\* session words, nor the stores, nor the requests in flight, and the handler
\* reports an error.
C12_NoWordCheckReportsError ==
  [][clicks' # clicks /\ last'.op = "checkReturned"
       => /\ UNCHANGED <<sessionWords, lists, progress, listQ, progQ>>
          /\ last'.shown # {}]_vars

\* C13 (as claimed): once every word of the session is known, no checkAnswer
\* is accepted until a new session has started.
C13_IdleAfterCompletion ==
  Checked => ~AllKnown([sessionWords EXCEPT ![last.index + 1] = last.before])

\* C14 (as claimed): after nextWord, in a session with a word that is not
\* known, the current word is not known.
C14_AdvanceSkipsKnown ==
  last.op = "next" /\ ~AllKnown(sessionWords)
    => sessionWords[currentWordIndex + 1].status # "known"

\* C14 (amended): nextWord moves the cursor to the cyclic successor of its
\* position, (cursor + 1) mod length, whatever the status of the word there.
C14_AdvanceIsCyclic ==
  last.op = "next"
    => /\ currentWordIndex = (last.from + 1) % Len(sessionWords)
       /\ currentWordIndex \in 0..(Len(sessionWords) - 1)

\* The cursor has wrapped round to a known word while another is not known.
C14_Witness ==
  /\ last.op = "next"
  /\ Len(sessionWords) = 2
  /\ last.from = 1 /\ currentWordIndex = 0
  /\ sessionWords[1].status = "known"
  /\ sessionWords[2].status # "known"

\* Selections: the words selected, the words left out, attempts and scores.
Selecting == last.op \in {"leastKnown", "loadLeastKnown", "loadWeakWords"}
Selected == { last.selected[k] : k \in 1..Len(last.selected) }
LeftOut == { last.pool[k] : k \in 1..Len(last.pool) } \ Selected
Attempts(w) == w.correct + w.incorrect
\* weaknessScore(a) > weaknessScore(b), both attempted
Weaker(a, b) == a.incorrect * Attempts(b) > b.incorrect * Attempts(a)

\* C15 (as claimed): no selection takes an attempted word with weaknessScore
\* below 1 while it leaves a never-attempted word out.
C15_NeverAttemptedOutranks ==
  Selecting
    => LET selected == Selected
           leftOut == LeftOut
       IN \A x \in selected, y \in leftOut :
            ~(Attempts(x) > 0 /\ x.correct > 0 /\ Attempts(y) = 0)

\* C16: a selection returns min(20, pool size) different words of the pool,
\* the attempted ones among them in descending order of weaknessScore, and no
\* attempted word left out has a strictly higher weaknessScore than an
\* attempted word selected.
C16_TopOfDescendingOrder ==
  Selecting
    => LET selected == Selected
           leftOut == LeftOut
       IN /\ Len(last.selected) = IF Len(last.pool) < LeastKnownLimit
                                  THEN Len(last.pool) ELSE LeastKnownLimit
          /\ Cardinality(selected) = Len(last.selected)
          /\ Cardinality(leftOut) = Len(last.pool) - Len(last.selected)
          /\ \A p, q \in 1..Len(last.selected) :
               /\ p < q
               /\ Attempts(last.selected[p]) > 0
               /\ Attempts(last.selected[q]) > 0
               => ~Weaker(last.selected[q], last.selected[p])
          /\ \A x \in selected, y \in leftOut :
               Attempts(x) > 0 /\ Attempts(y) > 0 => ~Weaker(y, x)

\* A pool of 21 words, the attempted word left out has score 0, an attempted
\* word with score 1 is selected.
C16_Witness ==
  /\ last.op = "leastKnown"
  /\ Len(last.pool) = LeastKnownLimit + 1
  /\ Len(last.selected) = LeastKnownLimit
  /\ \E y \in LeftOut : Attempts(y) > 0
  /\ \E x \in Selected : x.incorrect > 0 /\ x.correct = 0

\* Parses: the entries obtained from the drawn lines by either parser.
Parsed == last.op \in {"parseDCPText", "parseDCPFile"}
ParsedAgain(lines) ==
  IF last.op = "parseDCPText"
  THEN Entries(parseDCPText(Join(lines, 10)))
  ELSE EntriesStats(parseDCPFile(Join(lines, 10)))

\* C17 (as claimed): when a line of the text is exactly "@", the entries are
\* those of the lines before it, whatever follows it.
C17_NothingAfterEndMarker ==
  Parsed
    => \A k \in 1..Len(last.lines) :
         last.lines[k] = <<64>>
           => last.words = ParsedAgain(SubSeq(last.lines, 1, k - 1))

\* A line with the separator "=" and something other than blanks before it.
HasPrompt(line) ==
  \E i \in 1..Len(line) :
    /\ line[i] = 61
    /\ \A j \in 1..(i - 1) : line[j] # 61
    /\ \E j \in 1..(i - 1) : line[j] \notin Whitespace

\* C18 (as claimed): every entry has a non-empty trimmed prompt, at least one
\* accepted answer and both counts 0; there are no more entries than lines
\* with a separator and a prompt, and none when no line is such a line.
C18_MalformedLinesSkipped ==
  Parsed
    => /\ \A k \in 1..Len(last.words) :
            /\ last.words[k].prompt # <<>>
            /\ Trim(last.words[k].prompt) = last.words[k].prompt
            /\ Len(last.words[k].answers) >= 1
            /\ last.words[k].correct = 0
            /\ last.words[k].incorrect = 0
       /\ Len(last.words)
            <= Cardinality({ k \in 1..Len(last.lines) : HasPrompt(last.lines[k]) })

HasJudged ==
  last.op \in {"checkAnswer", "script.checkAnswer", "part_002.checkAnswer"}

\* C19 (as claimed): with the prompt in the source language the answer is
\* correct iff the text the handler reads from the input field equals one of
\* the accepted answers, unit for unit; in the other direction iff it equals
\* the source term ignoring letter case.
C19_ExactOrCaseInsensitive ==
  HasJudged
    => (last.isCorrect <=>
          IF last.promptIsSource
          THEN \E i \in 1..Len(last.word.hebrew) :
                 last.word.hebrew[i] = last.userAnswer
          ELSE ToLowerCase(last.word.english) = ToLowerCase(last.userAnswer))

HasMark(str) == \E i \in 1..Len(str) : str[i] \in 1425..1479

\* C20 (as claimed): with the prompt in the source language the answer
\* displayed is the first accepted answer with a diacritical mark when one
\* has a mark, the first accepted answer otherwise, whatever was typed.
C20_MarkedVariantPreferred ==
  HasJudged /\ last.promptIsSource
    => LET answers == last.word.hebrew
           marked == { i \in 1..Len(answers) : HasMark(answers[i]) }
       IN last.canonicalAnswer =
            IF marked = {} THEN answers[1]
            ELSE answers[CHOOSE i \in marked : \A j \in marked : i <= j]

\* A write of a list to the store is in flight.
PutInFlight == \E k \in 1..Len(listQ) : listQ[k].op = "put"

\* C21 (as claimed): no checkAnswer on a word, no advance and no start of a
\* session begins while a put issued by a checkAnswer is in flight.
C21_NoOperationDuringWrite ==
  [][last'.op \in {"check", "next", "start"} => ~PutInFlight]_vars

\* C22 (as claimed): when the put of a checkAnswer has failed, the failure
\* has been displayed and the session word the put was issued for does not
\* have the counts of that checkAnswer (they are rolled back).
C22_FailedWriteRollsBack ==
  last.op = "put" /\ ~last.ok
    => /\ last.shown # {}
       /\ \A k \in 1..Len(sessionWords) :
            sessionWords[k].origin = last.origin
              => sessionWords[k].correctCount + sessionWords[k].incorrectCount
                   < last.correctCount + last.incorrectCount

\* C23: the step that starts a session leaves every session word "default"
\* with streak 0 and no answer, the cursor on the first word, no answer
\* submitted, the completion flag cleared, and the store as it was.
C23_StartReplacesSession ==
  [][last'.op = "start"
       => /\ \A k \in 1..Len(sessionWords') :
               /\ sessionWords'[k].status = "default"
               /\ sessionWords'[k].correctStreak = 0
               /\ sessionWords'[k].answers = <<>>
          /\ (Len(sessionWords') > 0 => currentWordIndex' = 0)
          /\ ~answeredThisWord'
          /\ ~progressRecorded'
          /\ lists' = lists]_vars

\* A session has started over a store that holds counts committed by the
\* session before it; its words carry those counts and are "default".
C23_Witness ==
  /\ last.op = "start"
  /\ \E k \in 1..Len(sessionWords) :
       /\ sessionWords[k].correctCount + sessionWords[k].incorrectCount > 0
       /\ sessionWords[k].status = "default"
       /\ LET o == sessionWords[k].origin
          IN /\ o.list \in DOMAIN lists
             /\ lists[o.list].words[o.index].correctCount
                  = sessionWords[k].correctCount
             /\ lists[o.list].words[o.index].incorrectCount
                  = sessionWords[k].incorrectCount

\* new differs from old in nothing but what the commit step writes: the
\* counts and the streak of its entries.
CommitOnly(old, new) ==
  /\ new.id = old.id
  /\ Len(new.words) = Len(old.words)
  /\ \A k \in 1..Len(old.words) :
       [new.words[k] EXCEPT !.correctCount = old.words[k].correctCount,
                            !.incorrectCount = old.words[k].incorrectCount,
                            !.correctStreak = old.words[k].correctStreak]
         = old.words[k]

\* C24 (as claimed): a start and an advance change no entry of the store and
\* none of the loaded list (a start may load a list as the store holds it);
\* an entry of the store changes only when a put completes, an entry of the
\* loaded list only in checkAnswer, and then only by what the commit writes.
C24_EntriesChangeOnlyByCommit ==
  [][/\ last'.op \in {"start", "next"}
          => /\ lists' = lists
             /\ \/ currentList' = currentList
                \/ /\ last'.op = "start"
                   /\ \E id \in DOMAIN lists : currentList' = <<lists[id]>>
     /\ \A id \in DOMAIN lists \cap DOMAIN lists' :
          lists'[id] # lists[id]
            => last'.op = "put" /\ CommitOnly(lists[id], lists'[id])
     /\ (/\ currentList # <<>>
         /\ currentList' # <<>>
         /\ currentList'[1].id = currentList[1].id
         /\ currentList' # currentList)
          => \/ last'.op = "start"
             \/ last'.op = "check" /\ CommitOnly(currentList[1], currentList'[1])
    ]_vars

\* C25 (as claimed): when the least-known selection finds no word in the
\* store while a session with words is running, that session stays as it is
\* and the page says that there is nothing to practise.
C25_EmptyPoolStartsNothing ==
  [][(/\ listQ # <<>>
      /\ Head(listQ).op = "getAll"
      /\ Head(listQ).purpose = "leastKnown"
      /\ Len(Aggregated(lists)) = 0
      /\ Len(sessionWords) > 0
      /\ last'.op = "start")
       => /\ sessionWords' = sessionWords
          /\ last'.shown # {}]_vars

\* An import that has reported success.
Imported ==
  /\ last.op \in {"imported", "script.importDatabase"}
  /\ last.shown = {"Database imported successfully."}

\* C26: after an import that reports success the store holds the lists and
\* the progress records of the file, each once, and nothing else.
C26_ImportReplacesStore ==
  Imported
    => /\ { lists[i] : i \in DOMAIN lists }
            = { last.data.lists[k] : k \in 1..Len(last.data.lists) }
       /\ Cardinality(DOMAIN lists) = Len(last.data.lists)
       /\ { progress[d] : d \in DOMAIN progress }
            = { last.data.progress[k] : k \in 1..Len(last.data.progress) }
       /\ Cardinality(DOMAIN progress) = Len(last.data.progress)

\* A store with list 1 and a record of day 1 has been replaced by a file
\* with list 2 and a record of day 2 only.
C26_Witness ==
  /\ last.op = "imported"
  /\ last.shown = {"Database imported successfully."}
  /\ last.before = [lists |-> {1}, progress |-> {1}]
  /\ DOMAIN lists = {2}
  /\ DOMAIN progress = {2}

\* The entries written back as lines PROMPT=ANSWER1|ANSWER2|...
Serialize(words) ==
  Join([k \in 1..Len(words) |->
          words[k].prompt \o <<61>> \o Join(words[k].answers, 124)], 10)

\* C27: the entries parseDCPText gives for a text, written back as lines and
\* parsed again, are the same entries.
C27_ParseRoundTrip ==
  last.op = "parseDCPText"
    => Entries(parseDCPText(Serialize(last.words))) = last.words

\* A text that is not what its entries are written back as (blanks, skipped
\* lines), with two entries, one of them with two answers.
C27_Witness ==
  /\ last.op = "parseDCPText"
  /\ Len(last.words) >= 2
  /\ \E k \in 1..Len(last.words) : Len(last.words[k].answers) = 2
  /\ Serialize(last.words) # last.text

\* The same weaknessScore: both never attempted, or both attempted with the
\* same share of incorrect answers.
SameScore(a, b) ==
  IF Attempts(a) = 0 \/ Attempts(b) = 0 THEN Attempts(a) = Attempts(b)
  ELSE a.incorrect * Attempts(b) = b.incorrect * Attempts(a)

\* C28: of two words of the pool with the same weaknessScore, the pool in
\* iteration order (list by list, word by word), the later one is selected
\* only if the earlier one is; and no word is selected twice.
C28_TiesKeepIterationOrder ==
  Selecting
    => LET chosen == Selected
       IN /\ \A p, q \in 1..Len(last.pool) :
               (p < q /\ SameScore(last.pool[p], last.pool[q])
                  /\ last.pool[q] \in chosen)
                 => last.pool[p] \in chosen
          /\ \A p, q \in 1..Len(last.pool) :
               p < q => <<last.pool[p].list, last.pool[p].index>>
                          # <<last.pool[q].list, last.pool[q].index>>

\* A pool of 21 words over two lists: a never-attempted word is left out, a
\* never-attempted word of the other list is selected.
C28_Witness ==
  /\ Selecting
  /\ Len(last.pool) = LeastKnownLimit + 1
  /\ \E y \in LeftOut : \E x \in Selected :
       Attempts(y) = 0 /\ Attempts(x) = 0 /\ x.list # y.list

\* C29: in a session of n >= 1 words the k-th advance after the start has
\* put the cursor on index k mod n, whatever the status of the words, and any
\* n consecutive advances have presented every word once.
C29_KthAdvanceIsKModN ==
  last.op = "advances"
    => LET n == Len(sessionWords)
           k == Len(last.presented)
       IN /\ currentWordIndex = k % n
          /\ \A j \in 1..k : last.presented[j] = j % n
          /\ \A from \in 1..(k - n + 1) :
               /\ { last.presented[j] : j \in from..(from + n - 1) } = 0..(n - 1)
               /\ \A i, j \in from..(from + n - 1) :
                    last.presented[i] = last.presented[j] => i = j

\* Three words, at least four advances: the cursor has wrapped around and is
\* on a known word while another word is not known.
C29_Witness ==
  /\ last.op = "advances"
  /\ Len(sessionWords) = 3
  /\ Len(last.presented) >= 4
  /\ sessionWords[currentWordIndex + 1].status = "known"
  /\ \E k \in 1..Len(sessionWords) : sessionWords[k].status # "known"

\* C30: a user who alternates checkAnswer and nextWord and whose answers are
\* all correct from some point on reaches a state where every session word
\* is "known" and recordProgress has run for the session.
C30_EventuallyComplete ==
  <>(AllKnown(sessionWords) /\ progressRecorded /\ sessionRecordings = 1)

\* A complete session of two words, one of which was missed and then
\* answered correctly twice in a row.
C30_Witness ==
  /\ Complete
  /\ Len(sessionWords) = 2
  /\ \E k \in 1..Len(sessionWords) :
       /\ sessionWords[k].incorrectCount > 0
       /\ sessionWords[k].correctStreak >= 2

\* C31 (as claimed): a put that succeeds finds its list in the store; the
\* store of a run has every list from the start and loses one only by a
\* confirmed deletion, so no put brings a deleted list back.
C31_DeletedStaysDeleted ==
  [][(last'.op = "put" /\ last'.ok) => last'.id \in DOMAIN lists]_vars

\* C32 (as claimed): once the import has filled the store, no put of the
\* session that was running before the import changes the lists of the
\* store.
C32_ImportedListsUnaltered ==
  [][(last'.op = "put" /\ last'.ok /\ DOMAIN progress # {})
       => lists' = lists]_vars

RECURSIVE SumOf(_)
SumOf(ns) == IF ns = <<>> THEN 0 ELSE Head(ns) + SumOf(Tail(ns))

\* C33 (as claimed): when every request on the progress store has finished
\* and none has failed, there is one record for the day, and it counts every
\* session that completed and all their words.
C33_NoCompletionLost ==
  (progQ = <<>> /\ ~last.failed /\ last.sessions # <<>>)
    => /\ progress # <<>>
       /\ StoredTests(progress) = StoredTests(last.before) + Len(last.sessions)
       /\ StoredWords(progress) = StoredWords(last.before) + SumOf(last.sessions)

\* The entries of a list hold the same prompt and answers twice.
HasDuplicates(list) ==
  \E j, k \in 1..Len(list.words) :
    j # k /\ Matches(list.words[j], list.words[k])

C35_CommitChangesOneEntry ==
  [][(last'.op = "put" /\ last'.ok /\ last'.id \in DOMAIN lists)
       => /\ DOMAIN lists' = DOMAIN lists
          /\ \A i \in DOMAIN lists : i # last'.id => lists'[i] = lists[i]
          /\ CommitOnly(lists[last'.id], lists'[last'.id])
          /\ \A k \in 1..Len(lists[last'.id].words) :
               k # last'.origin.index
                 => lists'[last'.id].words[k] = lists[last'.id].words[k]
    ]_vars

\* C36: a checkAnswer adds 1 to correctCount of the current session word
\* when the answer is correct and 1 to its incorrectCount when it is not,
\* leaves its other count, and the counts, status and streak of every other
\* session word, as they were; in no step that does not start a session does
\* a count of a session word decrease.
C36_CheckCountsOneAnswer ==
  [][/\ last'.op = "check"
          => LET i == last'.index + 1
             IN /\ Len(sessionWords') = Len(sessionWords)
                /\ sessionWords'[i].correctCount
                     = sessionWords[i].correctCount
                         + (IF last'.isCorrect THEN 1 ELSE 0)
                /\ sessionWords'[i].incorrectCount
                     = sessionWords[i].incorrectCount
                         + (IF last'.isCorrect THEN 0 ELSE 1)
                /\ \A k \in 1..Len(sessionWords) :
                     k # i => SameMastery(sessionWords'[k], sessionWords[k])
     /\ (last'.op # "start" /\ Len(sessionWords') = Len(sessionWords))
          => \A k \in 1..Len(sessionWords) :
               /\ sessionWords'[k].correctCount >= sessionWords[k].correctCount
               /\ sessionWords'[k].incorrectCount
                    >= sessionWords[k].incorrectCount
    ]_vars

\* The second word of a session has been answered incorrectly after the
\* first has been answered correctly.
C36_Witness ==
  /\ Checked
  /\ ~last.isCorrect
  /\ last.index = 1
  /\ Len(sessionWords) = 2
  /\ sessionWords[1].answers = <<TRUE>>
  /\ sessionWords[2].answers = <<FALSE>>
  /\ sessionWords[2].incorrectCount = 1

\* C37: the streak of every session word is 0, 1 or 2; it is 0 on a
\* "default" word and at most 1 on a "wrong" word, and a word with streak 2
\* is "known".
C37_StreakWithinMastery ==
  \A k \in 1..Len(sessionWords) :
    /\ sessionWords[k].correctStreak \in 0..2
    /\ sessionWords[k].status = "default" => sessionWords[k].correctStreak = 0
    /\ sessionWords[k].status = "wrong" => sessionWords[k].correctStreak <= 1
    /\ sessionWords[k].correctStreak = 2 => sessionWords[k].status = "known"

\* A word that became known by streak 2 has been answered incorrectly.
C37_Witness ==
  /\ Checked
  /\ CheckedWord.answers = <<FALSE, TRUE, TRUE, FALSE>>
  /\ CheckedWord.status = "wrong"
  /\ CheckedWord.correctStreak = 0

\* C38: whenever the session has words, currentWordIndex is the index of
\* one of them.
C38_CursorOnSessionWord ==
  Len(sessionWords) > 0 => currentWordIndex \in 0..(Len(sessionWords) - 1)

\* nextWord on the last word of a session of two has wrapped to the first.
C38_Witness ==
  /\ last.op = "next"
  /\ Len(sessionWords) = 2
  /\ last.from = 1
  /\ currentWordIndex = 0

\* What the order of a session may not change of a word.
Content(word) ==
  [english |-> word.english, hebrew |-> word.hebrew,
   correctCount |-> word.correctCount, incorrectCount |-> word.incorrectCount]

Occurrences(words, content) ==
  Cardinality({ k \in 1..Len(words) : Content(words[k]) = content })

IsPermutation(out, in) ==
  /\ Len(out) = Len(in)
  /\ \A k \in 1..Len(in) :
       Occurrences(out, Content(in[k])) = Occurrences(in, Content(in[k]))

\* C39: the step that starts a session leaves as many session words as
\* words were selected (the words of the loaded list, or the least known
\* words of the store), each as often as it was selected.
C39_SessionIsPermutation ==
  [][last'.op = "start"
       => IsPermutation(sessionWords',
                        IF globalSessionMode' THEN LeastKnown(lists)
                        ELSE currentList'[1].words)]_vars

\* A session over two different words has started with the second word of
\* the list first.
C39_Witness ==
  /\ last.op = "start"
  /\ Len(sessionWords) = 2
  /\ sessionWords[1].origin.index = 2
  /\ sessionWords[2].origin.index = 1
  /\ Content(sessionWords[1]) # Content(sessionWords[2])

\* The statement of C36 on the session of src/script.js, whose words have
\* stats and neither status nor streak: a checkAnswer that is not turned
\* away adds 1 to stats.correct of the current word when the answer is
\* correct and 1 to its stats.incorrect when it is not, and leaves every
\* other session word as it was; in no step that keeps the session does a
\* count decrease.
ScriptCheckCountsOneAnswer ==
  [][/\ last'.op = "check"
          => LET i == last'.index + 1
             IN /\ Len(sessionWords') = Len(sessionWords)
                /\ sessionWords'[i].stats.correct
                     = sessionWords[i].stats.correct
                         + (IF last'.isCorrect THEN 1 ELSE 0)
                /\ sessionWords'[i].stats.incorrect
                     = sessionWords[i].stats.incorrect
                         + (IF last'.isCorrect THEN 0 ELSE 1)
                /\ \A k \in 1..Len(sessionWords) :
                     k # i => sessionWords'[k] = sessionWords[k]
     /\ (last'.op # "start" /\ Len(sessionWords') = Len(sessionWords))
          => \A k \in 1..Len(sessionWords) :
               /\ sessionWords'[k].stats.correct >= sessionWords[k].stats.correct
               /\ sessionWords'[k].stats.incorrect
                    >= sessionWords[k].stats.incorrect
    ]_vars
====
